---- MODULE Spec2Model ----
(***************************************************************************)
(* Verification model of the Playwright automation servers.                *)
(*                                                                         *)
(* Part I  - the browser / context / page registry shared (verbatim) by    *)
(*           PlaywrightMCPServer, PlaywrightHTTPServer and                 *)
(*           CopilotPlaywrightAgent: three Maps and the async operations   *)
(*           on them.  Every async method is a process that runs           *)
(*           atomically from one await to the next.                        *)
(* Part II - the socket session server AIWebAutomationServer.              *)
(* Part III - executeWorkflow of CopilotPlaywrightAgent.                    *)
(* Part IV - the stdin loop and JSON-RPC dispatch of PlaywrightMCPServer.  *)
(* Part V  - findElement, handleClick and handleWait of                    *)
(*           AIWebAutomationServer.                                        *)
(* Part VI - the other handlers of executeAIActions, analyzeUserIntent,    *)
(*           and the scroll / navigate command handlers of                 *)
(*           CopilotPlaywrightAgent.                                       *)
(* Part VII - the UI client of one socket: isProcessing and its timers.    *)
(* Part VIII - PlaywrightCopilotClient and startCopilotSession.            *)
(***************************************************************************)
EXTENDS Integers, Sequences, FiniteSets, TLC

\* ------------------------------------------------------------------ bounds
NumBrowserIds == 2
NumContextIds == 2
NumPageIds == 2
MaxObjs == 3
NumConns == 2
NumSockets == 1
MaxMsgs == 2
MaxSteps == 2
MaxLines == 3
MaxChunk == 2
MaxDurLen == 3
MaxUrlLen == 4
MaxSuggestions == 4
MaxHistory == 2

BrowserIds == 1..NumBrowserIds
ContextIds == 1..NumContextIds
PageIds == 1..NumPageIds
\* One request slot per client connection: a connection has at most one
\* request in flight, requests of different connections interleave.
Conns == 1..NumConns
Sockets == 1..NumSockets

\* --------------------------------------------------------------- constants
SupportedBrowserTypes == {"chromium", "firefox", "webkit"}
BrowserTypes == SupportedBrowserTypes \cup {"other"}
PageOps == {"navigate", "click", "fill", "get_text", "screenshot",
            "wait_for_selector", "evaluate"}
CloseOps == {"close_page", "close_context", "close_browser"}
CreateOps == {"launch_browser", "create_context", "create_page"}
\* JSON-RPC error codes of sendError's callers
ParseErrorCode == -32700
MethodNotFoundCode == -32601
InternalErrorCode == -32603

VARIABLES
    objs,       \* engine objects ever created: [kind, parent, open, owner]
                \* (owner: the creating connection, recorded in serial runs)
    browsers,   \* Map browserId -> engine browser   (obj = 0: no entry)
    contexts,   \* Map contextId -> engine context
    pages,      \* Map pageId    -> engine page
    req,        \* per connection: the request in flight and its position
    serial,     \* TRUE: the clients send a request only when none is in flight
    pre,        \* serial runs: the three Maps when the request was received
    \* ---- Part II: AIWebAutomationServer
    sock,           \* per socket: "none", "connected", "disconnected"
    activeSessions, \* the socket ids that are keys of this.activeSessions
    session,        \* per socket id its session object {browser, page, actionHistory}
    launched,       \* engine browsers and pages: [kind, sock, by, parent, st]
    msg,            \* per socket: the handleUserMessage calls, in receive order
    disc,           \* per socket: the cleanupSession call of its disconnect
    sig,            \* the SIGINT / SIGTERM handler: its position in the shutdown
    \* ---- Part III: workflows, protocol frames, action handlers
    wf,             \* executeWorkflow: the call in flight and its results
    io,             \* stdin / stdout of PlaywrightMCPServer: lines read, responses
    hc,             \* handleClick: the call, its findElement candidates, its trace
    hw,             \* handleWait: the call, its duration argument, its trace
    act,            \* the other action handlers: the call in flight, its argument,
                    \* the status events it emitted, the page operations it made
    ui,             \* the browser UI of one socket: isProcessing, its reset
                    \* timers, the messages in flight, the commands being handled
    cp              \* PlaywrightCopilotClient: its two fields and its call in flight

regVars == <<objs, browsers, contexts, pages, req, serial, pre>>
sessVars == <<sock, activeSessions, session, launched, msg, disc, sig>>
extVars == <<wf, io, hc, hw, act, ui, cp>>
vars == <<objs, browsers, contexts, pages, req, serial, pre,
          sock, activeSessions, session, launched, msg, disc, sig, wf, io, hc, hw, act,
          ui, cp>>

Registry == [browsers |-> browsers, contexts |-> contexts, pages |-> pages]

\* ------------------------------------------------------------ JS Map model
\* A Map entry keeps the engine object and its insertion stamp; iteration
\* visits entries in insertion order and is live (entries added while the
\* loop is suspended are still visited, deleted ones are not).
Absent == [obj |-> 0, stamp |-> 0]
Has(m, k) == m[k].obj # 0
MapSet(m, k, o) ==
    IF Has(m, k) THEN [m EXCEPT ![k].obj = o]
    ELSE [m EXCEPT ![k] = [obj |-> o, stamp |-> o]]
MapDelete(m, k) == [m EXCEPT ![k] = Absent]

\* Next entry after the cursor whose engine object belongs to parentObj
\* (the `page.context() === context` / `context.browser() === browser` test).
NextOwned(m, cursor, parentObj, os) ==
    LET cand == {k \in DOMAIN m : /\ Has(m, k)
                                  /\ m[k].stamp > cursor
                                  /\ os[m[k].obj].parent = parentObj}
    IN IF cand = {} THEN 0
       ELSE CHOOSE k \in cand : \A j \in cand : m[k].stamp <= m[j].stamp

\* ------------------------------------------------------------ engine model
NewObj(kind, parent, owner) ==
    [kind |-> kind, parent |-> parent, open |-> TRUE,
     owner |-> IF serial THEN owner ELSE 0]
IsUnder(os, i, o) ==
    \/ i = o
    \/ os[i].parent = o
    \/ (os[i].parent # 0 /\ os[os[i].parent].parent = o)
\* Closing an engine object closes everything below it.
EngineClose(os, o) ==
    [i \in DOMAIN os |-> IF IsUnder(os, i, o) THEN [os[i] EXCEPT !.open = FALSE]
                         ELSE os[i]]

\* ---------------------------------------------------------------- requests
Idle == [op |-> "none", id |-> 0, par |-> 0, pc |-> "idle", tgt |-> 0,
         cctx |-> 0, cobj |-> 0, ci |-> 0, pg |-> 0, pobj |-> 0, pi |-> 0,
         status |-> "none", err |-> "none"]
Call(op, id, par) == [Idle EXCEPT !.op = op, !.id = id, !.par = par]
\* The response: the async method returned (ok) or threw (err).
Finish(q, status, err) ==
    [Idle EXCEPT !.op = q.op, !.id = q.id, !.par = q.par, !.tgt = q.tgt,
                 !.pc = "done", !.status = status, !.err = err]
Creating(q) == q.pc \in {"launch", "newContext", "newPage"}
\* Room in the bounded object pool for one more create.
Room == Len(objs) + Cardinality({c \in Conns : Creating(req[c])}) < MaxObjs

RegistryInit ==
    /\ objs = <<>>
    /\ browsers = [b \in BrowserIds |-> Absent]
    /\ contexts = [c \in ContextIds |-> Absent]
    /\ pages = [p \in PageIds |-> Absent]
    /\ req = [r \in Conns |-> Idle]
    /\ pre = Registry

\* A handleUserMessage / cleanupSession call: its position and the engine
\* objects its pending await was issued on.
NoCall == [pc |-> "idle", page |-> 0, browser |-> 0]
\* The signal handler before any signal: `sock` is the key its loop over
\* activeSessions.keys() is at, `call` its awaited cleanupSession call.
NoSignal == [pc |-> "idle", sock |-> 0, call |-> NoCall]
SessionInit ==
    /\ sock = [s \in Sockets |-> "none"]
    /\ activeSessions = {}
    /\ session = [s \in Sockets |-> [browser |-> 0, page |-> 0, actionHistory |-> <<>>]]
    /\ launched = <<>>
    /\ msg = [s \in Sockets |-> <<>>]
    /\ disc = [s \in Sockets |-> NoCall]
    /\ sig = NoSignal

\* No workflow has been submitted.
NoWorkflow == [pc |-> "idle", page |-> 0, steps |-> <<>>, i |-> 0, pobj |-> 0,
               results |-> <<>>, status |-> "none"]
\* Nothing has been read from stdin.
NoInput == [lines |-> <<>>, out |-> <<>>, pending |-> {}, crashed |-> FALSE]
\* No handleClick / handleWait call.
NoClick == [pc |-> "idle", cand |-> <<>>, found |-> 0, trace |-> <<>>,
            status |-> "none"]
NoWait == [pc |-> "idle", duration |-> <<>>, waitTime |-> 0, trace |-> <<>>]
\* No other handler call.
\* (arg: the handler's argument, and for a handler that asks the translator
\* what the translator answers)
NoAct == [fn |-> "none", pc |-> "idle", arg |-> <<>>, url |-> <<>>, height |-> 0,
          events |-> <<>>, ops |-> <<>>, testCode |-> <<>>, matches |-> <<>>,
          out |-> "none"]
\* The UI client before its socket connects: no command sent, no timer set.
NoUi == [isConnected |-> FALSE, isProcessing |-> FALSE, timers |-> 0,
         toServer |-> <<>>, toClient |-> <<>>, running |-> <<>>, sent |-> 0]
\* A new PlaywrightCopilotClient: both fields null (0), no call in flight.
NoCop == [currentSession |-> 0, currentPageId |-> 0, pc |-> "idle", fn |-> "none",
          sessionId |-> 0, now |-> 1, out |-> "none"]
ExtInit ==
    wf = NoWorkflow /\ io = NoInput /\ hc = NoClick /\ hw = NoWait /\ act = NoAct
    /\ ui = NoUi /\ cp = NoCop

\* Requests of different connections interleave at their await points.
Init == RegistryInit /\ SessionInit /\ ExtInit /\ serial = FALSE
\* One request at a time: a request is sent only when none is in flight.
SeqInit == RegistryInit /\ SessionInit /\ ExtInit /\ serial = TRUE

Quiet == \A r \in Conns : req[r].pc = "idle"
\* Connection r's request arrives at the server.
Admit(r) ==
    /\ req[r].pc = "idle"
    /\ serial => Quiet
    /\ pre' = IF serial THEN Registry ELSE pre
    /\ UNCHANGED <<serial, sessVars, extVars>>

\* ---------------------------------------------------------- launchBrowser
LaunchBrowser(r, browserType, browserId) ==
    /\ Admit(r)
    /\ (Has(browsers, browserId) \/ browserType \notin SupportedBrowserTypes \/ Room)
    /\ LET q == Call("launch_browser", browserId, 0) IN
       req' = [req EXCEPT ![r] =
                 IF Has(browsers, browserId) THEN Finish(q, "err", "DuplicateId")
                 ELSE IF browserType \notin SupportedBrowserTypes
                      THEN Finish(q, "err", "UnsupportedBrowserType")
                      ELSE [q EXCEPT !.pc = "launch"]]
    /\ UNCHANGED <<objs, browsers, contexts, pages>>

LaunchBrowserResume(r) ==
    /\ UNCHANGED <<serial, pre, sessVars, extVars>>
    /\ req[r].pc = "launch"
    /\ \/ /\ objs' = Append(objs, NewObj("browser", 0, r))
          /\ browsers' = MapSet(browsers, req[r].id, Len(objs) + 1)
          /\ req' = [req EXCEPT ![r] = Finish(req[r], "ok", "none")]
       \/ /\ req' = [req EXCEPT ![r] = Finish(req[r], "err", "Engine")]
          /\ UNCHANGED <<objs, browsers>>
    /\ UNCHANGED <<contexts, pages>>

\* Mutant: createContext without its `this.contexts.has(contextId)` check.
CreateContextNoDuplicateCheck(r, browserId, contextId) ==
    /\ Admit(r)
    /\ (~Has(browsers, browserId) \/ Room)
    /\ LET q == Call("create_context", contextId, browserId) IN
       req' = [req EXCEPT ![r] =
                 IF ~Has(browsers, browserId) THEN Finish(q, "err", "ParentNotFound")
                 ELSE [q EXCEPT !.pc = "newContext",
                                !.tgt = browsers[browserId].obj]]
    /\ UNCHANGED <<objs, browsers, contexts, pages>>

\* ---------------------------------------------------------- createContext
CreateContext(r, browserId, contextId) ==
    /\ Admit(r)
    /\ (~Has(browsers, browserId) \/ Has(contexts, contextId) \/ Room)
    /\ LET q == Call("create_context", contextId, browserId) IN
       req' = [req EXCEPT ![r] =
                 IF ~Has(browsers, browserId) THEN Finish(q, "err", "ParentNotFound")
                 ELSE IF Has(contexts, contextId) THEN Finish(q, "err", "DuplicateId")
                      ELSE [q EXCEPT !.pc = "newContext",
                                     !.tgt = browsers[browserId].obj]]
    /\ UNCHANGED <<objs, browsers, contexts, pages>>

CreateContextResume(r) ==
    /\ UNCHANGED <<serial, pre, sessVars, extVars>>
    /\ req[r].pc = "newContext"
    /\ \/ /\ objs[req[r].tgt].open
          /\ objs' = Append(objs, NewObj("context", req[r].tgt, r))
          /\ contexts' = MapSet(contexts, req[r].id, Len(objs) + 1)
          /\ req' = [req EXCEPT ![r] = Finish(req[r], "ok", "none")]
       \/ /\ req' = [req EXCEPT ![r] = Finish(req[r], "err", "Engine")]
          /\ UNCHANGED <<objs, contexts>>
    /\ UNCHANGED <<browsers, pages>>

\* Mutant: createPage tests the duplicate page id before the parent context.
CreatePageDuplicateFirst(r, contextId, pageId) ==
    /\ Admit(r)
    /\ (~Has(contexts, contextId) \/ Has(pages, pageId) \/ Room)
    /\ LET q == Call("create_page", pageId, contextId) IN
       req' = [req EXCEPT ![r] =
                 IF Has(pages, pageId) THEN Finish(q, "err", "DuplicateId")
                 ELSE IF ~Has(contexts, contextId) THEN Finish(q, "err", "ParentNotFound")
                      ELSE [q EXCEPT !.pc = "newPage",
                                     !.tgt = contexts[contextId].obj]]
    /\ UNCHANGED <<objs, browsers, contexts, pages>>

\* ------------------------------------------------------------- createPage
CreatePage(r, contextId, pageId) ==
    /\ Admit(r)
    /\ (~Has(contexts, contextId) \/ Has(pages, pageId) \/ Room)
    /\ LET q == Call("create_page", pageId, contextId) IN
       req' = [req EXCEPT ![r] =
                 IF ~Has(contexts, contextId) THEN Finish(q, "err", "ParentNotFound")
                 ELSE IF Has(pages, pageId) THEN Finish(q, "err", "DuplicateId")
                      ELSE [q EXCEPT !.pc = "newPage",
                                     !.tgt = contexts[contextId].obj]]
    /\ UNCHANGED <<objs, browsers, contexts, pages>>

CreatePageResume(r) ==
    /\ UNCHANGED <<serial, pre, sessVars, extVars>>
    /\ req[r].pc = "newPage"
    /\ \/ /\ objs[req[r].tgt].open
          /\ objs' = Append(objs, NewObj("page", req[r].tgt, r))
          /\ pages' = MapSet(pages, req[r].id, Len(objs) + 1)
          /\ req' = [req EXCEPT ![r] = Finish(req[r], "ok", "none")]
       \/ /\ req' = [req EXCEPT ![r] = Finish(req[r], "err", "Engine")]
          /\ UNCHANGED <<objs, pages>>
    /\ UNCHANGED <<browsers, contexts>>

\* ------------------- navigate, click, fill, getText, screenshot, ... (page)
PageOperation(r, op, pageId) ==
    /\ Admit(r)
    /\ op \in PageOps
    /\ LET q == Call(op, pageId, 0) IN
       req' = [req EXCEPT ![r] =
                 IF ~Has(pages, pageId) THEN Finish(q, "err", "NotFound")
                 ELSE [q EXCEPT !.pc = "pageOp", !.tgt = pages[pageId].obj]]
    /\ UNCHANGED <<objs, browsers, contexts, pages>>

PageOperationResume(r) ==
    /\ UNCHANGED <<serial, pre, sessVars, extVars>>
    /\ req[r].pc = "pageOp"
    /\ \/ /\ objs[req[r].tgt].open
          /\ req' = [req EXCEPT ![r] = Finish(req[r], "ok", "none")]
       \/ req' = [req EXCEPT ![r] = Finish(req[r], "err", "Engine")]
    /\ UNCHANGED <<objs, browsers, contexts, pages>>

\* ------------------------------------------------------ the cascade loops
\* Inner loop `for (const [pageId, page] of this.pages.entries())`: run to the
\* next `await page.close()`, or past the loop to `await context.close()`.
EnterPages(q, pgs, os) ==
    LET p == NextOwned(pgs, q.pi, q.cobj, os) IN
    IF p = 0 THEN [q EXCEPT !.pc = "contextClose", !.pg = 0, !.pobj = 0, !.pi = 0]
    ELSE [q EXCEPT !.pc = "pageClose", !.pg = p, !.pobj = pgs[p].obj,
                   !.pi = pgs[p].stamp]

\* Mutant: closeBrowser goes straight to `browser.close()`, cascading nothing.
EnterContextsNoCascade(q, ctxs, pgs, os) ==
    [q EXCEPT !.pc = "browserClose", !.cctx = 0, !.cobj = 0, !.ci = 0]

\* Mutant: closeBrowser closes and removes each context without first
\* closing the context's pages.
EnterContextsSkipPages(q, ctxs, pgs, os) ==
    LET c == NextOwned(ctxs, q.ci, q.tgt, os) IN
    IF c = 0 THEN [q EXCEPT !.pc = "browserClose", !.cctx = 0, !.cobj = 0, !.ci = 0]
    ELSE [q EXCEPT !.pc = "contextClose", !.cctx = c, !.cobj = ctxs[c].obj,
                   !.ci = ctxs[c].stamp, !.pg = 0, !.pobj = 0, !.pi = 0]

\* Outer loop `for (const [contextId, context] of this.contexts.entries())`:
\* run to the next await, or past the loop to `await browser.close()`.
EnterContexts(q, ctxs, pgs, os) ==
    LET c == NextOwned(ctxs, q.ci, q.tgt, os) IN
    IF c = 0 THEN [q EXCEPT !.pc = "browserClose", !.cctx = 0, !.cobj = 0, !.ci = 0]
    ELSE EnterPages([q EXCEPT !.cctx = c, !.cobj = ctxs[c].obj,
                              !.ci = ctxs[c].stamp, !.pi = 0], pgs, os)

\* Mutant: closePage of an id that is not registered reports success.
ClosePageIgnoreMissing(r, pageId) ==
    /\ Admit(r)
    /\ LET q == Call("close_page", pageId, 0) IN
       req' = [req EXCEPT ![r] =
                 IF ~Has(pages, pageId) THEN Finish(q, "ok", "none")
                 ELSE [q EXCEPT !.pc = "pageClose", !.tgt = pages[pageId].obj,
                                !.pg = pageId, !.pobj = pages[pageId].obj]]
    /\ UNCHANGED <<objs, browsers, contexts, pages>>

\* ------------------------------------------------------------- closePage
ClosePage(r, pageId) ==
    /\ Admit(r)
    /\ LET q == Call("close_page", pageId, 0) IN
       req' = [req EXCEPT ![r] =
                 IF ~Has(pages, pageId) THEN Finish(q, "err", "NotFound")
                 ELSE [q EXCEPT !.pc = "pageClose", !.tgt = pages[pageId].obj,
                                !.pg = pageId, !.pobj = pages[pageId].obj]]
    /\ UNCHANGED <<objs, browsers, contexts, pages>>

\* ----------------------------------------------------------- closeContext
CloseContext(r, contextId) ==
    /\ Admit(r)
    /\ LET q == Call("close_context", contextId, 0) IN
       req' = [req EXCEPT ![r] =
                 IF ~Has(contexts, contextId) THEN Finish(q, "err", "NotFound")
                 ELSE EnterPages([q EXCEPT !.tgt = contexts[contextId].obj,
                                           !.cctx = contextId,
                                           !.cobj = contexts[contextId].obj],
                                 pages, objs)]
    /\ UNCHANGED <<objs, browsers, contexts, pages>>

\* ----------------------------------------------------------- closeBrowser
CloseBrowser(r, browserId) ==
    /\ Admit(r)
    /\ LET q == Call("close_browser", browserId, 0) IN
       req' = [req EXCEPT ![r] =
                 IF ~Has(browsers, browserId) THEN Finish(q, "err", "NotFound")
                 ELSE EnterContexts([q EXCEPT !.tgt = browsers[browserId].obj],
                                    contexts, pages, objs)]
    /\ UNCHANGED <<objs, browsers, contexts, pages>>

\* `await page.close(); this.pages.delete(pageId);` and on to the next await.
PageCloseResume(r) ==
    /\ UNCHANGED <<serial, pre, sessVars, extVars>>
    /\ req[r].pc = "pageClose"
    /\ \/ /\ objs' = EngineClose(objs, req[r].pobj)
          /\ pages' = MapDelete(pages, req[r].pg)
          /\ req' = [req EXCEPT ![r] =
                       IF req[r].op = "close_page" THEN Finish(req[r], "ok", "none")
                       ELSE EnterPages(req[r], pages', objs')]
       \/ /\ req' = [req EXCEPT ![r] = Finish(req[r], "err", "Engine")]
          /\ UNCHANGED <<objs, pages>>
    /\ UNCHANGED <<browsers, contexts>>

\* `await context.close(); this.contexts.delete(contextId);` and onwards.
ContextCloseResume(r) ==
    /\ UNCHANGED <<serial, pre, sessVars, extVars>>
    /\ req[r].pc = "contextClose"
    /\ \/ /\ objs' = EngineClose(objs, req[r].cobj)
          /\ contexts' = MapDelete(contexts, req[r].cctx)
          /\ req' = [req EXCEPT ![r] =
                       IF req[r].op = "close_context" THEN Finish(req[r], "ok", "none")
                       ELSE EnterContexts(req[r], contexts', pages, objs')]
       \/ /\ req' = [req EXCEPT ![r] = Finish(req[r], "err", "Engine")]
          /\ UNCHANGED <<objs, contexts>>
    /\ UNCHANGED <<browsers, pages>>

\* `await browser.close(); this.browsers.delete(browserId);`
BrowserCloseResume(r) ==
    /\ UNCHANGED <<serial, pre, sessVars, extVars>>
    /\ req[r].pc = "browserClose"
    /\ \/ /\ objs' = EngineClose(objs, req[r].tgt)
          /\ browsers' = MapDelete(browsers, req[r].id)
          /\ req' = [req EXCEPT ![r] = Finish(req[r], "ok", "none")]
       \/ /\ req' = [req EXCEPT ![r] = Finish(req[r], "err", "Engine")]
          /\ UNCHANGED <<objs, browsers>>
    /\ UNCHANGED <<contexts, pages>>

\* The caller has read the response; the connection can send again.
Deliver(r) ==
    /\ UNCHANGED <<serial, pre, sessVars, extVars>>
    /\ req[r].pc = "done"
    /\ req' = [req EXCEPT ![r] = Idle]
    /\ UNCHANGED <<objs, browsers, contexts, pages>>

\* -------------------------------------------------------------------- Next
Next ==
    \E r \in Conns :
        \/ \E t \in BrowserTypes, b \in BrowserIds : LaunchBrowser(r, t, b)
        \/ \E b \in BrowserIds, c \in ContextIds : CreateContext(r, b, c)
        \/ \E c \in ContextIds, p \in PageIds : CreatePage(r, c, p)
        \/ \E op \in PageOps, p \in PageIds : PageOperation(r, op, p)
        \/ \E p \in PageIds : ClosePage(r, p)
        \/ \E c \in ContextIds : CloseContext(r, c)
        \/ \E b \in BrowserIds : CloseBrowser(r, b)
        \/ LaunchBrowserResume(r)
        \/ CreateContextResume(r)
        \/ CreatePageResume(r)
        \/ PageOperationResume(r)
        \/ PageCloseResume(r)
        \/ ContextCloseResume(r)
        \/ BrowserCloseResume(r)
        \/ Deliver(r)

Spec == Init /\ [][Next]_vars
SeqSpec == SeqInit /\ [][Next]_vars

\* ============================================= Part II: the session server
\* A process of socket s: i = 0 is the cleanupSession call made by the
\* disconnect handler, i >= 1 the handleUserMessage call of the i-th message,
\* i = -1 the cleanupSession call the signal handler is awaiting.
CallOf(s, i) == IF i = 0 THEN disc[s] ELSE IF i = -1 THEN sig.call ELSE msg[s][i]
SetCall(s, i, c) ==
    /\ disc' = IF i = 0 THEN [disc EXCEPT ![s] = c] ELSE disc
    /\ msg' = IF i >= 1 THEN [msg EXCEPT ![s][i] = c] ELSE msg
    /\ sig' = IF i = -1 THEN [sig EXCEPT !.call = c] ELSE sig
Procs(s) == (0..Len(msg[s])) \cup (IF sig.sock = s THEN {-1} ELSE {})
At(pc) == [NoCall EXCEPT !.pc = pc]
Finished == At("done")
\* process.exit(0) has run: nothing runs any more.
Exited == sig.pc = "exited"
\* handleUserMessage caught the error initializeBrowser re-threw.
InitFailed == At("initFailed")
\* cleanupSession returned: to handleSocketDisconnect or the signal handler,
\* or to the catch block of initializeBrowser, which re-throws.
EndCleanup(i) == IF i >= 1 THEN InitFailed ELSE Finished

\* An await on a closed engine object rejects.
Usable(i) == launched[i].st # "closed"
\* page.close(): the page is closed, or the close rejected.
PageClosed(ls, p, ok) ==
    [ls EXCEPT ![p].st = IF ok THEN "closed"
                         ELSE IF @ = "open" THEN "closeFailed" ELSE @]
\* browser.close(): the browser and its pages are closed, or the close rejected.
BrowserClosed(ls, b, ok) ==
    [i \in DOMAIN ls |->
        IF ok /\ (i = b \/ ls[i].parent = b) THEN [ls[i] EXCEPT !.st = "closed"]
        ELSE IF ~ok /\ i = b /\ ls[i].st = "open" THEN [ls[i] EXCEPT !.st = "closeFailed"]
        ELSE ls[i]]
\* The page "close" listener: session.page = null, if the socket still has a
\* session in activeSessions.
OnPageClose(sess, s, fired) ==
    IF fired /\ s \in activeSessions THEN [sess EXCEPT ![s].page = 0] ELSE sess

\* cleanupSession from its call to its first await (or to its return).
CleanupEnter(s) ==
    IF s \notin activeSessions THEN Finished
    ELSE IF session[s].page # 0
         THEN [pc |-> "cleanupPage", page |-> session[s].page, browser |-> 0]
         ELSE IF session[s].browser # 0
              THEN [pc |-> "cleanupBrowser", page |-> 0, browser |-> session[s].browser]
              ELSE Finished
\* cleanupSession reached `this.activeSessions.delete(socketId)` without awaiting.
CleanupEnterDeletes(s) ==
    s \in activeSessions /\ session[s].page = 0 /\ session[s].browser = 0

\* io.on("connection"): the session is created.
Connect(s) ==
    /\ ~Exited
    /\ sock[s] = "none"
    \* socket ids are numbered in the order the sockets connect
    /\ \A t \in Sockets : t < s => sock[t] # "none"
    \* `server.close` stops the server from accepting connections
    /\ sig.pc \in {"idle", "cleanup"}
    /\ sock' = [sock EXCEPT ![s] = "connected"]
    /\ activeSessions' = activeSessions \cup {s}
    /\ session' = [session EXCEPT ![s] = [browser |-> 0, page |-> 0, actionHistory |-> <<>>]]
    /\ UNCHANGED <<launched, msg, disc, sig, regVars, extVars>>

\* After initializeBrowser: `session.page ? await session.page.title() : ...`
AfterInitialize(sess, s) ==
    IF sess[s].page # 0 THEN [pc |-> "title", page |-> sess[s].page, browser |-> 0]
    ELSE At("analyze")

\* socket.on("user_message"): handleUserMessage up to its first await.
UserMessage(s) ==
    /\ ~Exited
    /\ sock[s] = "connected"
    /\ Len(msg[s]) < MaxMsgs
    /\ msg' = [msg EXCEPT ![s] = Append(@,
                 IF s \notin activeSessions THEN Finished
                 ELSE IF session[s].browser = 0 THEN At("launch")
                      ELSE AfterInitialize(session, s))]
    /\ UNCHANGED <<sock, activeSessions, session, launched, disc, sig, regVars,
                   extVars>>

\* initializeBrowser: `session.browser = await chromium.launch(...)`.
LaunchResume(s, i) ==
    /\ ~Exited
    /\ i \in 1..Len(msg[s]) /\ msg[s][i].pc = "launch"
    /\ \/ /\ launched' = Append(launched,
                [kind |-> "browser", sock |-> s, by |-> i, parent |-> 0, st |-> "open"])
          /\ session' = [session EXCEPT ![s].browser = Len(launched) + 1]
          /\ SetCall(s, i, [pc |-> "newPage", page |-> 0, browser |-> Len(launched) + 1])
          /\ UNCHANGED activeSessions
       \/ /\ SetCall(s, i, CleanupEnter(s))
          /\ activeSessions' = IF CleanupEnterDeletes(s) THEN activeSessions \ {s}
                               ELSE activeSessions
          /\ UNCHANGED <<launched, session>>
    /\ UNCHANGED <<sock, regVars, extVars>>

\* initializeBrowser: `session.page = await session.browser.newPage()`.
NewPageResume(s, i) ==
    /\ ~Exited
    /\ i \in 1..Len(msg[s]) /\ msg[s][i].pc = "newPage"
    /\ \/ /\ Usable(msg[s][i].browser)
          /\ launched' = Append(launched,
                [kind |-> "page", sock |-> s, by |-> i, parent |-> msg[s][i].browser,
                 st |-> "open"])
          /\ session' = [session EXCEPT ![s].page = Len(launched) + 1]
          /\ SetCall(s, i, [pc |-> "title", page |-> Len(launched) + 1, browser |-> 0])
          /\ UNCHANGED activeSessions
       \/ /\ SetCall(s, i, CleanupEnter(s))
          /\ activeSessions' = IF CleanupEnterDeletes(s) THEN activeSessions \ {s}
                               ELSE activeSessions
          /\ UNCHANGED <<launched, session>>
    /\ UNCHANGED <<sock, regVars, extVars>>

\* cleanupSession: `await session.page.close()` settled; on to the browser.
CleanupPageResume(s, i) ==
    /\ ~Exited
    /\ i \in Procs(s) /\ CallOf(s, i).pc = "cleanupPage"
    /\ \E ok \in BOOLEAN :
          LET p == CallOf(s, i).page
              sess == OnPageClose(session, s, ok /\ Usable(p)) IN
          /\ launched' = PageClosed(launched, p, ok)
          /\ session' = sess
          /\ IF sess[s].browser # 0
             THEN /\ SetCall(s, i, [pc |-> "cleanupBrowser", page |-> 0,
                                    browser |-> sess[s].browser])
                  /\ UNCHANGED activeSessions
             ELSE /\ SetCall(s, i, EndCleanup(i))
                  /\ activeSessions' = activeSessions \ {s}
    /\ UNCHANGED <<sock, regVars, extVars>>

\* Mutant: cleanupSession without the try/catch around `session.browser.close()`.
CleanupBrowserResumeNoCatch(s, i) ==
    /\ ~Exited
    /\ i \in Procs(s) /\ CallOf(s, i).pc = "cleanupBrowser"
    /\ \E ok \in BOOLEAN :
          LET b == CallOf(s, i).browser
              fired == ok /\ \E p \in DOMAIN launched :
                                launched[p].parent = b /\ Usable(p) IN
          /\ launched' = BrowserClosed(launched, b, ok)
          /\ session' = OnPageClose(session, s, fired)
          /\ SetCall(s, i, IF ok THEN EndCleanup(i) ELSE At("threw"))
          /\ activeSessions' = IF ok THEN activeSessions \ {s} ELSE activeSessions
    /\ UNCHANGED <<sock, regVars, extVars>>

\* cleanupSession: `await session.browser.close()` settled; the session is deleted.
CleanupBrowserResume(s, i) ==
    /\ ~Exited
    /\ i \in Procs(s) /\ CallOf(s, i).pc = "cleanupBrowser"
    /\ \E ok \in BOOLEAN :
          LET b == CallOf(s, i).browser
              fired == ok /\ \E p \in DOMAIN launched :
                                launched[p].parent = b /\ Usable(p) IN
          /\ launched' = BrowserClosed(launched, b, ok)
          /\ session' = OnPageClose(session, s, fired)
    /\ SetCall(s, i, EndCleanup(i))
    /\ activeSessions' = activeSessions \ {s}
    /\ UNCHANGED <<sock, regVars, extVars>>

\* handleUserMessage: `await session.page.title()` settled.
TitleResume(s, i) ==
    /\ ~Exited
    /\ i \in 1..Len(msg[s]) /\ msg[s][i].pc = "title"
    /\ \/ Usable(msg[s][i].page) /\ SetCall(s, i, At("analyze"))
       \/ SetCall(s, i, Finished)
    /\ UNCHANGED <<sock, activeSessions, session, launched, regVars, extVars>>

PlanKinds == {"action", "error", "unknown"}
\* handleUserMessage: `await this.analyzeUserIntent(...)` returned a plan; the
\* pair is pushed on the history and executeAIActions runs to its first await.
AnalyzeResume(s, i, plan) ==
    /\ ~Exited
    /\ i \in 1..Len(msg[s]) /\ msg[s][i].pc = "analyze"
    /\ session' = [session EXCEPT ![s].actionHistory = Append(@, i)]
    /\ SetCall(s, i,
          IF s \notin activeSessions \/ session[s].page = 0 THEN Finished
          ELSE IF plan = "action"
               THEN [pc |-> "execute", page |-> session[s].page, browser |-> 0]
               ELSE Finished)
    /\ UNCHANGED <<sock, activeSessions, launched, regVars, extVars>>

\* executeAIActions: the awaited page action handler settled.
ExecuteResume(s, i) ==
    /\ ~Exited
    /\ i \in 1..Len(msg[s]) /\ msg[s][i].pc = "execute"
    /\ SetCall(s, i, Finished)
    /\ UNCHANGED <<sock, activeSessions, session, launched, regVars, extVars>>

\* The page closes without the server asking: its window is closed, it calls
\* window.close(), or it crashes.  The "close" listener runs.
PageCloseEvent(s, p) ==
    /\ ~Exited
    /\ p \in DOMAIN launched
    /\ launched[p].kind = "page" /\ launched[p].sock = s /\ launched[p].st = "open"
    /\ launched' = PageClosed(launched, p, TRUE)
    /\ session' = OnPageClose(session, s, TRUE)
    /\ UNCHANGED <<sock, activeSessions, msg, disc, sig, regVars, extVars>>

\* socket.on("disconnect"): handleSocketDisconnect calls cleanupSession.
Disconnect(s) ==
    /\ ~Exited
    /\ sock[s] = "connected"
    /\ sock' = [sock EXCEPT ![s] = "disconnected"]
    /\ disc' = [disc EXCEPT ![s] = CleanupEnter(s)]
    /\ activeSessions' = IF CleanupEnterDeletes(s) THEN activeSessions \ {s}
                         ELSE activeSessions
    /\ UNCHANGED <<session, launched, msg, sig, regVars, extVars>>

\* The key after `cursor` in activeSessions.keys() (insertion order, live).
NextSession(cursor) ==
    LET cand == {s \in activeSessions : s > cursor}
    IN IF cand = {} THEN 0 ELSE CHOOSE s \in cand : \A t \in cand : s <= t
\* The signal handler's loop from the key after `cursor` to its next await:
\* `await server.cleanupSession(socketId)`, or `server.server.close(...)`
\* when the keys are exhausted.
ShutdownLoop(cursor) ==
    LET s == NextSession(cursor) IN
    IF s = 0
    THEN /\ sig' = [pc |-> "closing", sock |-> 0, call |-> NoCall]
         /\ UNCHANGED activeSessions
    ELSE /\ sig' = [pc |-> "cleanup", sock |-> s, call |-> CleanupEnter(s)]
         /\ activeSessions' = IF CleanupEnterDeletes(s) THEN activeSessions \ {s}
                              ELSE activeSessions

\* process.on("SIGINT") / process.on("SIGTERM").
Signal ==
    /\ sig.pc = "idle"
    /\ ShutdownLoop(0)
    /\ UNCHANGED <<sock, session, launched, msg, disc, regVars, extVars>>

\* The awaited cleanupSession returned: on to the next key.
SignalResume ==
    /\ sig.pc = "cleanup" /\ sig.call.pc = "done"
    /\ ShutdownLoop(sig.sock)
    /\ UNCHANGED <<sock, session, launched, msg, disc, regVars, extVars>>

\* The callback of `server.server.close`: process.exit(0).
Exit ==
    /\ sig.pc = "closing"
    /\ sig' = [sig EXCEPT !.pc = "exited"]
    /\ UNCHANGED <<sock, activeSessions, session, launched, msg, disc, regVars,
                   extVars>>

SessNext ==
    \/ \E s \in Sockets : Connect(s)
    \/ \E s \in Sockets : UserMessage(s)
    \/ \E s \in Sockets : Disconnect(s)
    \/ \E s \in Sockets, i \in 1..MaxMsgs : LaunchResume(s, i)
    \/ \E s \in Sockets, i \in 1..MaxMsgs : NewPageResume(s, i)
    \/ \E s \in Sockets, i \in -1..MaxMsgs : CleanupPageResume(s, i)
    \/ \E s \in Sockets, i \in -1..MaxMsgs : CleanupBrowserResume(s, i)
    \/ \E s \in Sockets, i \in 1..MaxMsgs : TitleResume(s, i)
    \/ \E s \in Sockets, i \in 1..MaxMsgs, plan \in PlanKinds : AnalyzeResume(s, i, plan)
    \/ \E s \in Sockets, i \in 1..MaxMsgs : ExecuteResume(s, i)
    \/ \E s \in Sockets, p \in 1..(2 * MaxMsgs * NumSockets) : PageCloseEvent(s, p)
    \/ Signal
    \/ SignalResume
    \/ Exit

SessSpec == Init /\ [][SessNext]_vars

\* ====================================== Part III: CopilotPlaywrightAgent
\* The classes of command executeNaturalLanguageCommand tells apart: "click"
\* stands for handleClickCommand, which swallows the engine's errors;
\* "navigate" for the handlers that let them propagate; "unknown" for a
\* command that is not recognized and returns { success: false } at once.
StepKinds == {"click", "navigate", "unknown"}
Workflows ==
    UNION {[1..n -> StepKinds] : n \in 1..MaxSteps}

\* results.push({ step: step.name, result }) / ({ step: step.name, error })
Push(w, kind, val) ==
    [w EXCEPT !.results = Append(@, [step |-> w.i, kind |-> kind, val |-> val]),
              !.i = @ + 1]

\* executeWorkflow from step w.i to its next suspension in an engine call, or
\* to its return.  executeNaturalLanguageCommand throws when pageId has no
\* entry in this.pages; the loop catches and goes on.
RECURSIVE RunWorkflow(_, _)
RunWorkflow(w, pgs) ==
    IF w.i > Len(w.steps) THEN [w EXCEPT !.pc = "done", !.status = "ok"]
    ELSE IF ~Has(pgs, w.page) THEN RunWorkflow(Push(w, "error", "NotFound"), pgs)
    ELSE IF w.steps[w.i] = "unknown"
         THEN RunWorkflow(Push(w, "result", "failure"), pgs)
         ELSE [w EXCEPT !.pc = "step", !.pobj = pgs[w.page].obj]

\* Mutant: executeWorkflow refusing the whole workflow when the page is missing.
ExecuteWorkflowFailFast(steps, pageId) ==
    /\ wf.pc = "idle"
    /\ wf' = IF ~Has(pages, pageId)
             THEN [NoWorkflow EXCEPT !.pc = "done", !.status = "err",
                                     !.steps = steps, !.page = pageId, !.i = 1]
             ELSE RunWorkflow([NoWorkflow EXCEPT !.steps = steps, !.page = pageId,
                                                 !.i = 1], pages)
    /\ UNCHANGED <<regVars, sessVars, io, hc, hw, act, ui, cp>>

\* POST /copilot/workflow: executeWorkflow(workflow, pageId).
ExecuteWorkflow(steps, pageId) ==
    /\ wf.pc = "idle"
    /\ wf' = RunWorkflow([NoWorkflow EXCEPT !.steps = steps, !.page = pageId,
                                            !.i = 1], pages)
    /\ UNCHANGED <<regVars, sessVars, io, hc, hw, act, ui, cp>>

\* Mutant: executeWorkflow without the try/catch around a step.
WorkflowStepResumeAbort ==
    /\ wf.pc = "step"
    /\ \/ /\ objs[wf.pobj].open
          /\ wf' = RunWorkflow(Push(wf, "result", "success"), pages)
       \/ wf' = IF wf.steps[wf.i] = "click"
                THEN RunWorkflow(Push(wf, "result", "failure"), pages)
                ELSE [wf EXCEPT !.pc = "done", !.status = "err"]
    /\ UNCHANGED <<regVars, sessVars, io, hc, hw, act, ui, cp>>

\* The engine call of the current step settled.
WorkflowStepResume ==
    /\ wf.pc = "step"
    /\ \/ /\ objs[wf.pobj].open
          /\ wf' = RunWorkflow(Push(wf, "result", "success"), pages)
       \/ wf' = RunWorkflow(
                  IF wf.steps[wf.i] = "click" THEN Push(wf, "result", "failure")
                  ELSE Push(wf, "error", "Engine"), pages)
    /\ UNCHANGED <<regVars, sessVars, io, hc, hw, act, ui, cp>>

\* The registry requests that build a page and close it again, beside the
\* workflow.
WfNext ==
    \/ \E b \in BrowserIds : LaunchBrowser(1, "chromium", b)
    \/ LaunchBrowserResume(1)
    \/ \E b \in BrowserIds, c \in ContextIds : CreateContext(1, b, c)
    \/ CreateContextResume(1)
    \/ \E c \in ContextIds, p \in PageIds : CreatePage(1, c, p)
    \/ CreatePageResume(1)
    \/ \E p \in PageIds : ClosePage(1, p)
    \/ PageCloseResume(1)
    \/ Deliver(1)
    \/ \E steps \in Workflows, p \in PageIds : ExecuteWorkflow(steps, p)
    \/ WorkflowStepResume

WfSpec == Init /\ [][WfNext]_vars

\* ================================ Part IV: PlaywrightMCPServer's stdin loop
\* What a non-blank line of stdin can be:
\*   garbage        not JSON                        (JSON.parse throws)
\*   null           the JSON value null
\*   scalar         another JSON value that is no object with an id: 42, "x"
\*   noMethod       an object with an id and no method
\*   unknownMethod  a request whose method is none of the switch's cases
\*   initialize, toolsList, notification (notifications/tools/list_changed)
\*   callThrows     tools/call that throws before its first await: no params,
\*                  unknown tool name, or a registry error
\*   callTool       tools/call that suspends in an engine call
\*   cutHead        the first part of a request line (initialize, tools/list
\*                  or tools/call) whose bytes end with the chunk
\*   cutTail        the rest of that line, at the start of the next chunk
\* Each "data" event is split into lines by itself: nothing of a chunk is
\* kept for the next one, and no part of an object's text is JSON.
MalformedKinds == {"garbage", "null", "scalar", "noMethod"}
RequestKinds == {"unknownMethod", "initialize", "toolsList", "notification",
                 "callThrows", "callTool"}
FragmentKinds == {"cutHead", "cutTail"}
LineKinds == MalformedKinds \cup RequestKinds \cup FragmentKinds
Chunks == UNION {[1..n -> LineKinds] : n \in 1..MaxChunk}

\* The id member of a response: null, absent (request.id is undefined), or
\* the id of the request, which is the number of its line.
NullId == [tag |-> "null", val |-> 0]
UndefinedId == [tag |-> "undefined", val |-> 0]
RequestId(kind, k) ==
    IF kind \in {"scalar", "notification"} THEN UndefinedId
    ELSE [tag |-> "id", val |-> k]

\* sendError: { jsonrpc, id, error: { code, message } }
SendError(st, k, id, code) ==
    [st EXCEPT !.out = Append(@, [line |-> k, id |-> id, code |-> code,
                                  result |-> FALSE, error |-> TRUE])]
\* sendResponse with a response built as { jsonrpc, id, result }
SendResponse(st, k, id) ==
    [st EXCEPT !.out = Append(@, [line |-> k, id |-> id, code |-> 0,
                                  result |-> TRUE, error |-> FALSE])]

\* Mutant: handleRequest whose switch has no default branch of its own, so
\* that an unknown method ends in the catch block.
HandleRequestNoDefault(st, k) ==
    LET kind == st.lines[k]
        id == RequestId(kind, k) IN
    CASE kind \in {"garbage"} \cup FragmentKinds ->
            SendError(st, k, NullId, ParseErrorCode)
      [] kind = "null" -> [st EXCEPT !.crashed = TRUE]
      [] kind \in {"scalar", "noMethod", "unknownMethod"} ->
            SendError(st, k, id, InternalErrorCode)
      [] kind \in {"initialize", "toolsList"} -> SendResponse(st, k, id)
      [] kind = "notification" -> st
      [] kind = "callThrows" -> SendError(st, k, id, InternalErrorCode)
      [] kind = "callTool" -> [st EXCEPT !.pending = @ \cup {k}]

\* One line of the chunk: JSON.parse, then handleRequest up to its first
\* suspension in an engine call.  For the line `null` both `request.method`
\* and, in the catch block, `request.id` throw: the promise of handleRequest
\* rejects and nobody handles the rejection.
HandleRequest(st, k) ==
    LET kind == st.lines[k]
        id == RequestId(kind, k) IN
    CASE kind \in {"garbage"} \cup FragmentKinds ->
            SendError(st, k, NullId, ParseErrorCode)
      [] kind = "null" -> [st EXCEPT !.crashed = TRUE]
      [] kind \in {"scalar", "noMethod", "unknownMethod"} ->
            SendError(st, k, id, MethodNotFoundCode)
      [] kind \in {"initialize", "toolsList"} -> SendResponse(st, k, id)
      [] kind = "notification" -> st
      [] kind = "callThrows" -> SendError(st, k, id, InternalErrorCode)
      [] kind = "callTool" -> [st EXCEPT !.pending = @ \cup {k}]

\* `for (const line of lines)`: the lines of one chunk, in order.
RECURSIVE ReadLines(_, _, _)
ReadLines(st, chunk, j) ==
    IF j > Len(chunk) THEN st
    ELSE LET k == Len(st.lines) + 1 IN
         ReadLines(HandleRequest([st EXCEPT !.lines = Append(@, chunk[j])], k),
                   chunk, j + 1)

\* The chunks stdin can deliver after the lines read so far: a line is cut
\* only where a chunk ends, and the rest of a cut line is what comes next.
WellCut(lines, chunk) ==
    LET cut == lines # <<>> /\ lines[Len(lines)] = "cutHead" IN
    /\ \A j \in 1..Len(chunk) :
          /\ chunk[j] = "cutHead" => j = Len(chunk)
          /\ chunk[j] = "cutTail" => j = 1 /\ cut
    /\ cut => chunk[1] = "cutTail"

\* process.stdin.on("data").  An unhandled rejection ends the process or is
\* only reported, depending on the runtime's unhandled-rejections mode; it
\* is raised after the handler has read the whole chunk.
Data(chunk) ==
    /\ ~io.crashed
    /\ Len(io.lines) + Len(chunk) <= MaxLines
    /\ WellCut(io.lines, chunk)
    /\ LET st == ReadLines(io, chunk, 1) IN
       \/ io' = st
       \/ st.crashed /\ io' = [st EXCEPT !.crashed = FALSE]
    /\ UNCHANGED <<regVars, sessVars, wf, hc, hw, act, ui, cp>>

\* handleToolCall: the awaited tool method returned or threw.
ToolResume(k, ok) ==
    /\ ~io.crashed
    /\ k \in io.pending
    /\ LET st == [io EXCEPT !.pending = @ \ {k}]
           id == RequestId(io.lines[k], k) IN
       io' = IF ok THEN SendResponse(st, k, id)
             ELSE SendError(st, k, id, InternalErrorCode)
    /\ UNCHANGED <<regVars, sessVars, wf, hc, hw, act, ui, cp>>

FrameNext ==
    \/ \E chunk \in Chunks : Data(chunk)
    \/ \E k \in 1..MaxLines, ok \in BOOLEAN : ToolResume(k, ok)

FrameSpec == Init /\ [][FrameNext]_vars

\* =================== Part V: the action handlers of AIWebAutomationServer
\* PLAYWRIGHT_SELECTOR_STRATEGIES, in the order of the array.
Strategies == <<"selector", "text", "aria-label", "title", "placeholder",
                "button:has-text", "a:has-text", "*:has-text">>
NumStrategies == 8
\* What a strategy's locator does on the page at hand:
\*   none     count() is 0
\*   hidden   count() > 0 and the first match is not visible
\*   visible  count() > 0 and the first match is visible
\*   throws   count() or isVisible() rejects (e.g. the text is no valid selector)
Outcomes == {"none", "hidden", "visible", "throws"}
Candidates == [1..NumStrategies -> Outcomes]

\* Mutant: findElement without the isVisible test.
RECURSIVE TryStrategiesAnyMatch(_, _)
TryStrategiesAnyMatch(cand, j) ==
    IF j > NumStrategies THEN 0
    ELSE IF cand[j] \in {"visible", "hidden"} THEN j
         ELSE TryStrategiesAnyMatch(cand, j + 1)
FindElementAnyMatch(cand) == TryStrategiesAnyMatch(cand, 1)

\* The loop of findElement from strategy j on: the index of the strategy
\* whose locator is returned, 0 for null.  A strategy whose count() or
\* isVisible() rejects is skipped by the catch block.
RECURSIVE TryStrategies(_, _)
TryStrategies(cand, j) ==
    IF j > NumStrategies THEN 0
    ELSE IF cand[j] = "visible" THEN j
         ELSE TryStrategies(cand, j + 1)

\* findElement(page, selector)
FindElement(cand) == TryStrategies(cand, 1)

\* Mutant: handleClick that throws without calling suggestAlternatives.
HandleClickNoSuggest ==
    /\ hc.pc = "called"
    /\ LET e == FindElement(hc.cand)
           cand == hc.cand IN
       hc' = IF e # 0
             THEN [pc |-> "click", cand |-> cand, found |-> e,
                   trace |-> <<"click">>, status |-> "none"]
             ELSE [pc |-> "done", cand |-> cand, found |-> 0,
                   trace |-> <<>>, status |-> "ElementNotFound"]
    /\ UNCHANGED <<regVars, sessVars, wf, io, hw, act, ui, cp>>

\* handleClick up to `await element.click(...)` or to
\* `await this.suggestAlternatives(...)`; the trace records the calls made.
HandleClick ==
    /\ hc.pc = "called"
    /\ LET e == FindElement(hc.cand)
           cand == hc.cand IN
       hc' = IF e # 0
             THEN [pc |-> "click", cand |-> cand, found |-> e,
                   trace |-> <<"click">>, status |-> "none"]
             ELSE [pc |-> "suggest", cand |-> cand, found |-> 0,
                   trace |-> <<"suggestAlternatives">>, status |-> "none"]
    /\ UNCHANGED <<regVars, sessVars, wf, io, hw, act, ui, cp>>

\* `element.click({ timeout: 5000 })` settled.
ClickResume ==
    /\ hc.pc = "click"
    /\ \E ok \in BOOLEAN :
          hc' = [hc EXCEPT !.pc = "done",
                           !.status = IF ok THEN "ok" ELSE "ClickFailed"]
    /\ UNCHANGED <<regVars, sessVars, wf, io, hw, act, ui, cp>>

\* suggestAlternatives returned (it catches its own errors):
\* `throw new Error(\`Element "..." not found for click.\`)`.
SuggestResume ==
    /\ hc.pc = "suggest"
    /\ hc' = [hc EXCEPT !.pc = "done", !.status = "ElementNotFound"]
    /\ UNCHANGED <<regVars, sessVars, wf, io, hw, act, ui, cp>>

ClickNext ==
    \/ HandleClick
    \/ ClickResume
    \/ SuggestResume

\* executeAIActions calls handleClick on a page with any candidates.
ClickInit ==
    /\ RegistryInit /\ SessionInit /\ serial = FALSE
    /\ wf = NoWorkflow /\ io = NoInput /\ hw = NoWait /\ act = NoAct
    /\ ui = NoUi /\ cp = NoCop
    /\ hc \in {[NoClick EXCEPT !.pc = "called", !.cand = cand] : cand \in Candidates}
ClickSpec == ClickInit /\ [][ClickNext]_vars

\* -------------------------------------------------------------- handleWait
\* The duration argument is a string over a small alphabet: a sign, three
\* digits, a letter and the run of characters " seconds".
Chars == {"-", "0", "2", "5", "a", " seconds"}
Digits == {"0", "2", "5"}
DigitVal(c) == CASE c = "0" -> 0 [] c = "2" -> 2 [] c = "5" -> 5
Durations == UNION {[1..n -> Chars] : n \in 0..MaxDurLen}
DefaultWaitMs == 2000
DefaultDuration == <<"2", "0", "0", "0">>

NaN == [nan |-> TRUE, val |-> 0]
Num(n) == [nan |-> FALSE, val |-> n]
\* The value of the digits of str from position j on, after the value acc of
\* the digits before j.
RECURSIVE DigitsFrom(_, _, _)
DigitsFrom(str, j, acc) ==
    IF j > Len(str) \/ str[j] \notin Digits THEN acc
    ELSE DigitsFrom(str, j + 1, 10 * acc + DigitVal(str[j]))
\* parseInt(str, 10): an optional sign, then the longest prefix of digits;
\* NaN when there is no digit.
ParseInt(str) ==
    LET neg == Len(str) >= 1 /\ str[1] = "-"
        first == IF neg THEN 2 ELSE 1 IN
    IF first > Len(str) \/ str[first] \notin Digits THEN NaN
    ELSE Num(IF neg THEN 0 - DigitsFrom(str, first, 0) ELSE DigitsFrom(str, first, 0))
\* `x || d` on numbers: NaN and 0 are falsy.
OrDefault(x, d) == IF x.nan \/ x.val = 0 THEN Num(d) ELSE x

\* handleWait from its call to `await page.waitForTimeout(waitTime)`; an
\* invalid waitTime emits the warning and calls handleWait(socket, page, "2000").
RECURSIVE RunWait(_, _)
RunWait(duration, trace) ==
    LET waitTime == OrDefault(ParseInt(duration), DefaultWaitMs) IN
    IF waitTime.nan \/ waitTime.val <= 0
    THEN RunWait(DefaultDuration, Append(trace, "warning"))
    ELSE [pc |-> "waiting", waitTime |-> waitTime.val, trace |-> Append(trace, "info")]

HandleWait ==
    /\ hw.pc = "called"
    /\ LET w == RunWait(hw.duration, <<>>) IN
       hw' = [hw EXCEPT !.pc = w.pc, !.waitTime = w.waitTime, !.trace = w.trace]
    /\ UNCHANGED <<regVars, sessVars, wf, io, hc, act, ui, cp>>

\* `page.waitForTimeout(waitTime)` settled.
WaitResume ==
    /\ hw.pc = "waiting"
    /\ \/ hw' = [hw EXCEPT !.pc = "done", !.trace = Append(@, "success")]
       \/ hw' = [hw EXCEPT !.pc = "threw"]
    /\ UNCHANGED <<regVars, sessVars, wf, io, hc, act, ui, cp>>

WaitNext ==
    \/ HandleWait
    \/ WaitResume

\* executeAIActions calls handleWait with any duration string.
WaitInit ==
    /\ RegistryInit /\ SessionInit /\ serial = FALSE
    /\ wf = NoWorkflow /\ io = NoInput /\ hc = NoClick /\ act = NoAct
    /\ ui = NoUi /\ cp = NoCop
    /\ hw \in {[NoWait EXCEPT !.pc = "called", !.duration = d] : d \in Durations}
WaitSpec == WaitInit /\ [][WaitNext]_vars

\* ======= Part VI: the other handlers of executeAIActions, and the command
\* handlers of CopilotPlaywrightAgent
oldVars == <<regVars, sessVars, wf, io, hc, hw, ui, cp>>
\* emitStatus(socket, message, type): the event's type and its message.
\* (about: the value the message quotes, where the model needs it)
EventAbout(type, text, about) == [type |-> type, text |-> text, about |-> about]
Event(type, text) == EventAbout(type, text, "")
Emit(a, type, text) == [a EXCEPT !.events = Append(@, Event(type, text))]
EmitAbout(a, type, text, about) ==
    [a EXCEPT !.events = Append(@, EventAbout(type, text, about))]
\* A call made on the page, on one of its elements or on the OpenAI client.
PageOp(op, x, y) == [op |-> op, x |-> x, y |-> y]
Returned(a) == [a EXCEPT !.pc = "done", !.out = "returned"]
Threw(a) == [a EXCEPT !.pc = "done", !.out = "threw"]
ActCall(fn, arg) == [NoAct EXCEPT !.fn = fn, !.pc = "called", !.arg = arg]
Calling(fn, pc) == act.fn = fn /\ act.pc = pc

\* -------------------------------------------------------------- handleType
\* handleType up to `await element.fill(...)`, or to its throw when
\* findElement returned null (the catch block emits and re-throws).
HandleType ==
    /\ Calling("handleType", "called")
    /\ LET a == Emit(act, "info", "Looking for input field") IN
       act' = IF FindElement(act.arg) # 0
              THEN [Emit(a, "info", "Input field found")
                      EXCEPT !.pc = "fill", !.ops = <<PageOp("fill", 0, 0)>>]
              ELSE Threw(Emit(Emit(a, "error", "Input field not found"),
                              "error", "Type failed"))
    /\ UNCHANGED oldVars

\* `element.fill(text, { timeout: 5000 })` settled.
FillResume ==
    /\ Calling("handleType", "fill")
    /\ \/ act' = Returned(Emit(act, "success", "Successfully typed text"))
       \/ act' = Threw(Emit(act, "error", "Type failed"))
    /\ UNCHANGED oldVars

\* ------------------------------------------------------------ handleScroll
\* The direction tokens handed to handleScroll.
Directions == {"down", "up", "left", "right", "top", "bottom", "home", "DOWN",
               "sideways"}
\* direction.toLowerCase() on these tokens
ToLowerCase(d) == IF d = "DOWN" THEN "down" ELSE d
ScrollAmount == 500
\* document.body.scrollHeight of the page
ScrollHeights == {0, 1200}

\* handleScroll up to its `await page.evaluate(...)`, or to the return of
\* the default branch.
HandleScroll ==
    /\ Calling("handleScroll", "called")
    /\ LET a == Emit(act, "info", "Scrolling")
           d == ToLowerCase(act.arg)
           Evaluate(op) == [a EXCEPT !.pc = "evaluate", !.ops = <<op>>] IN
       act' = CASE d = "down" -> Evaluate(PageOp("scrollBy", 0, ScrollAmount))
                [] d = "up" -> Evaluate(PageOp("scrollBy", 0, 0 - ScrollAmount))
                [] d \in {"top", "home"} -> Evaluate(PageOp("scrollTo", 0, 0))
                [] d = "bottom" -> Evaluate(PageOp("scrollTo", 0, act.height))
                [] OTHER -> Returned(Emit(a, "warning", "Unknown scroll direction"))
    /\ UNCHANGED oldVars

\* `page.evaluate(...)` of handleScroll settled.
ScrollResume ==
    /\ Calling("handleScroll", "evaluate")
    /\ \/ act' = Returned(Emit(act, "success", "Scrolled"))
       \/ act' = Threw(Emit(act, "error", "Scroll failed"))
    /\ UNCHANGED oldVars

\* ------------------------------- handleScrollCommand (CopilotPlaywrightAgent)
\* A command is a sequence of words; none of the words used contains another.
Includes(command, w) == \E j \in 1..Len(command) : command[j] = w
ScrollCommands == {<<"scroll", d>> : d \in Directions}
ExtractScrollData(command) ==
    IF Includes(command, "down") THEN [x |-> 0, y |-> 500]
    ELSE IF Includes(command, "up") THEN [x |-> 0, y |-> -500]
    ELSE IF Includes(command, "right") THEN [x |-> 500, y |-> 0]
    ELSE IF Includes(command, "left") THEN [x |-> -500, y |-> 0]
    ELSE [x |-> 0, y |-> 500]

\* handleScrollCommand up to `await page.evaluate(...)`.
HandleScrollCommand ==
    /\ Calling("handleScrollCommand", "called")
    /\ LET scrollData == ExtractScrollData(act.arg) IN
       act' = [act EXCEPT !.pc = "evaluate",
                          !.ops = <<PageOp("scrollBy", scrollData.x, scrollData.y)>>]
    /\ UNCHANGED oldVars

\* `page.evaluate(...)` settled: `return { success: true, ... }`, or the
\* rejection propagates.
ScrollCommandResume ==
    /\ Calling("handleScrollCommand", "evaluate")
    /\ \/ act' = [act EXCEPT !.pc = "done", !.out = "success"]
       \/ act' = Threw(act)
    /\ UNCHANGED oldVars

\* -------------------------------------------------------- handleNavigation
\* A URL is a string cut into pieces.  No piece is a prefix of another, so
\* one string starts with another exactly when its pieces do.
UrlPieces == {"http", "s", "://", "bin.org"}
Urls == UNION {[1..n -> UrlPieces] : n \in 0..MaxUrlLen}
StartsWith(str, prefix) ==
    Len(str) >= Len(prefix) /\ SubSeq(str, 1, Len(prefix)) = prefix
Http == <<"http", "://">>
Https == <<"http", "s", "://">>

\* handleNavigation up to `await page.goto(url, ...)`.
HandleNavigation ==
    /\ Calling("handleNavigation", "called")
    /\ LET url == IF ~StartsWith(act.arg, Http) /\ ~StartsWith(act.arg, Https)
                  THEN Https \o act.arg
                  ELSE act.arg IN
       act' = [Emit(act, "info", "Navigating to")
                 EXCEPT !.pc = "goto", !.url = url, !.ops = <<PageOp("goto", 0, 0)>>]
    /\ UNCHANGED oldVars

\* `page.goto(url, { waitUntil: "domcontentloaded" })` settled.
GotoResume ==
    /\ Calling("handleNavigation", "goto")
    /\ \/ act' = [act EXCEPT !.pc = "waitForLoadState",
                             !.ops = Append(@, PageOp("waitForLoadState", 0, 0))]
       \/ act' = Threw(Emit(act, "error", "Navigation failed"))
    /\ UNCHANGED oldVars

\* `page.waitForLoadState("networkidle")` settled; analyzePageStructure runs
\* to its `await page.evaluate(...)`.
LoadStateResume ==
    /\ Calling("handleNavigation", "waitForLoadState")
    /\ \/ act' = [Emit(Emit(act, "success", "Successfully navigated"),
                       "info", "Analyzing page structure")
                    EXCEPT !.pc = "analyzePageStructure",
                           !.ops = Append(@, PageOp("evaluate", 0, 0))]
       \/ act' = Threw(Emit(act, "error", "Navigation failed"))
    /\ UNCHANGED oldVars

\* analyzePageStructure's evaluate settled; it catches its own errors.
StructureResume ==
    /\ Calling("handleNavigation", "analyzePageStructure")
    /\ \/ act' = Returned(Emit(act, "success", "Found buttons, links, inputs"))
       \/ act' = Returned(Emit(act, "error", "Structure analysis failed"))
    /\ UNCHANGED oldVars

\* ----------------------------- handleNavigateCommand (CopilotPlaywrightAgent)
\* The commands "go to <target>".
NavigateCommands == {<<"go to ">> \o target : target \in Urls}
\* `command.match(/(?:navigate|go)\s+to\s+(.+)/i)`, then the scheme test.
ExtractUrl(command) ==
    LET url == Tail(command) IN
    IF command[1] = "go to " /\ url # <<>>
    THEN [match |-> TRUE,
          url |-> IF ~StartsWith(url, <<"http">>) THEN Https \o url ELSE url]
    ELSE [match |-> FALSE, url |-> <<>>]

\* handleNavigateCommand up to `await page.goto(url)`, or to its return
\* when no URL was extracted.
HandleNavigateCommand ==
    /\ Calling("handleNavigateCommand", "called")
    /\ LET url == ExtractUrl(act.arg) IN
       act' = IF url.match
              THEN [act EXCEPT !.pc = "goto", !.url = url.url,
                               !.ops = <<PageOp("goto", 0, 0)>>]
              ELSE [act EXCEPT !.pc = "done", !.out = "failure"]
    /\ UNCHANGED oldVars

\* `page.goto(url)` settled.
NavigateCommandResume ==
    /\ Calling("handleNavigateCommand", "goto")
    /\ \/ act' = [act EXCEPT !.pc = "done", !.out = "success"]
       \/ act' = Threw(act)
    /\ UNCHANGED oldVars

\* ----------------------------------------------------------- handleAnalyze
\* What the chat-completion call of analyzePageWithAI does: it rejects, or
\* its content is not JSON, or is the JSON text null, or is an object with a
\* summary and some suggestions.
AnalysisReplies ==
    {[kind |-> k, suggestions |-> 0] : k \in {"apiError", "unparseable", "null"}}
    \cup {[kind |-> "object", suggestions |-> n] : n \in 0..MaxSuggestions}
FallbackSummary == "Analysis complete: Page analysis failed due to an AI error."

\* handleAnalyze up to getPageInfo's `await page.evaluate(...)`.
HandleAnalyze ==
    /\ Calling("handleAnalyze", "called")
    /\ act' = [Emit(act, "info", "Analyzing page for")
                 EXCEPT !.pc = "getPageInfo", !.ops = <<PageOp("evaluate", 0, 0)>>]
    /\ UNCHANGED oldVars

\* getPageInfo settled; analyzePageWithAI runs to
\* `await this.openai.chat.completions.create(...)`.
PageInfoResume ==
    /\ Calling("handleAnalyze", "getPageInfo")
    /\ \/ act' = [act EXCEPT !.pc = "openai",
                             !.ops = Append(@, PageOp("chat.completions.create", 0, 0))]
       \/ act' = Threw(Emit(act, "error", "Analysis failed"))
    /\ UNCHANGED oldVars

\* The completion settled: analyzePageWithAI returns the parsed reply, or
\* its fallback from the catch block; handleAnalyze emits the summary and
\* one event per suggestion.
AnalysisResume ==
    /\ Calling("handleAnalyze", "openai")
    /\ LET reply == act.arg
           Suggestions(n) == [k \in 1..n |-> Event("info", "Suggestion")] IN
       act' = CASE reply.kind \in {"apiError", "unparseable"} ->
                     Returned(Emit(Emit(act, "error", "Deep analysis with AI failed"),
                                   "success", FallbackSummary))
                [] reply.kind = "null" ->
                     Threw(Emit(act, "error", "Analysis failed"))
                [] reply.kind = "object" ->
                     Returned([Emit(act, "success", "Analysis complete: summary")
                                 EXCEPT !.events = @ \o Suggestions(reply.suggestions)])
    /\ UNCHANGED oldVars

\* --------------------------------- analyzeUserIntent and executeAIActions
\* The action tokens executeAIActions has a handler for.
PlanActions == {"navigate", "click", "type", "analyze", "wait", "scroll", "extract"}
\* What the chat-completion call of analyzeUserIntent does: it rejects
\* (apiError); its content is not JSON and holds no {...} (text), or holds a
\* {...} that does not parse (braces), or holds a JSON object inside other
\* text (wrapped); or its content is JSON: an object, null, a number or an
\* array.  An object has an action token (or none: "undefined") and steps.
IntentReplies ==
    {[kind |-> k, type |-> "none", action |-> "none", steps |-> 0] :
        k \in {"apiError", "text", "braces"}}
    \cup {[kind |-> "json", type |-> t, action |-> "undefined", steps |-> 0] :
             t \in {"null", "number", "array"}}
    \cup {[kind |-> k, type |-> "object", action |-> a, steps |-> n] :
             k \in {"json", "wrapped"},
             a \in PlanActions \cup {"error", "hover", "undefined"},
             n \in 0..MaxSteps}
\* The error sentinel analyzeUserIntent returns.
Sentinel(description) ==
    [type |-> "object", action |-> "error", description |-> description, steps |-> 1]

\* analyzeUserIntent after the completion settled: the events it emits and
\* the value it returns.
AnalyzeUserIntent(a, reply) ==
    CASE reply.kind = "apiError" ->
            [a |-> Emit(a, "error", "AI analysis failed"),
             aiResponse |-> Sentinel("AI analysis failed due to an API error")]
      [] reply.kind = "text" ->
            [a |-> Emit(a, "error", "AI response format error. No JSON found."),
             aiResponse |-> Sentinel("AI response was not JSON")]
      [] reply.kind = "braces" ->
            [a |-> Emit(a, "error", "AI response format error. Could not parse JSON."),
             aiResponse |-> Sentinel("AI failed to produce valid JSON")]
      [] reply.kind \in {"json", "wrapped"} ->
            [a |-> a,
             aiResponse |-> [type |-> reply.type, action |-> reply.action,
                             description |-> IF reply.type = "object"
                                             THEN "description" ELSE "undefined",
                             steps |-> reply.steps]]

\* executeAIActions(socket, aiResponse) of a session that has a page, up to
\* the await of the handler it calls or to its return.  Destructuring null
\* throws; handleUserMessage catches what executeAIActions throws.
ExecuteAIActions(a, aiResponse) ==
    IF aiResponse.type = "null"
    THEN Returned(Emit(a, "error", "Global error processing message"))
    ELSE LET planned == [EmitAbout(a, "info", "Plan", aiResponse.description)
                           EXCEPT !.events = @ \o [k \in 1..aiResponse.steps |->
                                                     Event("info", "Step")]] IN
         CASE aiResponse.action \in PlanActions ->
                 [planned EXCEPT !.pc = "handler",
                                 !.ops = <<PageOp(aiResponse.action, 0, 0)>>]
           [] aiResponse.action = "error" ->
                 Returned(EmitAbout(planned, "error", "AI Action Error",
                                    aiResponse.description))
           [] OTHER ->
                 Returned(EmitAbout(planned, "warning", "Unknown action",
                                    aiResponse.action))

\* handleUserMessage after initializeBrowser and the page title, up to
\* `await this.openai.chat.completions.create(...)` in analyzeUserIntent.
HandleUserMessage ==
    /\ Calling("handleUserMessage", "called")
    /\ act' = [Emit(act, "info", "AI analyzing your request") EXCEPT !.pc = "openai"]
    /\ UNCHANGED oldVars

\* The completion settled: analyzeUserIntent returns, the plan is pushed on
\* the history and executeAIActions runs.
IntentResume ==
    /\ Calling("handleUserMessage", "openai")
    /\ LET r == AnalyzeUserIntent(act, act.arg) IN
       act' = ExecuteAIActions(r.a, r.aiResponse)
    /\ UNCHANGED oldVars

\* The handler executeAIActions awaits settled; its rejection is caught.
HandlerResume ==
    /\ Calling("handleUserMessage", "handler")
    /\ \/ act' = Returned(act)
       \/ act' = Returned(Emit(act, "error", "Action failed"))
    /\ UNCHANGED oldVars

\* -------------------------------------------------- generatePlaywrightTest
\* The plans an action-history entry can hold: what analyzeUserIntent
\* returned for the command, an object with an action and a target, or null.
NavigateTargets == {<<"bin.org">>, <<"http", "bin.org">>, <<"http", "://", "bin.org">>,
                    <<"http", "s", "://", "bin.org">>, <<>>}
HistoryPlans ==
    {[type |-> "object", action |-> "navigate", target |-> t] : t \in NavigateTargets}
    \cup {[type |-> "object", action |-> a, target |-> <<"x">>] :
             a \in {"click", "scroll", "error", "hover"}}
    \cup {[type |-> "null", action |-> "undefined", target |-> <<>>]}
\* The histories: entry k holds the k-th command's text and its plan.
Histories ==
    UNION {{[k \in 1..n |-> [message |-> k, aiResponse |-> plans[k]]] :
               plans \in [1..n -> HistoryPlans]} : n \in 0..MaxHistory}
\* `new URL(navUrl)` succeeds on an absolute URL with a host.
ParsesAsUrl(url) ==
    \/ StartsWith(url, Http) /\ Len(url) > Len(Http)
    \/ StartsWith(url, Https) /\ Len(url) > Len(Https)
\* The body of the loop throws: `aiResponse.description` of null, or
\* `new URL(navUrl)` of a string that is no URL.
BlockThrows(entry) ==
    \/ entry.aiResponse.type = "null"
    \/ /\ entry.aiResponse.action = "navigate"
       /\ LET target == entry.aiResponse.target
              navUrl == IF StartsWith(target, <<"http">>) THEN target
                        ELSE Https \o target IN
          ~ParsesAsUrl(navUrl)
\* The lines the loop appends for an entry: the command comment and the
\* code of the switch case.
TestBlock(entry) ==
    [message |-> entry.message,
     code |-> IF entry.aiResponse.action \in {"navigate", "click", "scroll", "error"}
              THEN entry.aiResponse.action ELSE "unhandled"]

\* socket.on("generate_test"): generatePlaywrightTest has no await.
GeneratePlaywrightTest ==
    /\ Calling("generatePlaywrightTest", "called")
    /\ LET actionHistory == act.arg IN
       act' = IF actionHistory = <<>>
              THEN Returned(Emit(act, "info", "No actions recorded"))
              ELSE IF \E k \in 1..Len(actionHistory) : BlockThrows(actionHistory[k])
              THEN Threw(act)
              ELSE [Returned(Emit(act, "success", "Playwright test case generated"))
                      EXCEPT !.testCode = <<[k \in 1..Len(actionHistory) |->
                                               TestBlock(actionHistory[k])]>>]
    /\ UNCHANGED oldVars

\* ----------------------------------------------- executeNaturalLanguageCommand
\* A command is its text cut into pieces; the keywords of the dispatch are
\* pieces of their own and no keyword lies across two pieces, so that
\* `lowerCommand.includes(keyword)` is the membership test Includes.  The
\* arguments the client is given: "https://wordpress.org", "enter site", ...
MaxArgLen == 2
ArgPieces == {"https://", "word", "press", ".org", "enter", "site"}
CommandArgs == UNION {[1..n -> ArgPieces] : n \in 1..MaxArgLen}
\* The command texts of PlaywrightCopilotClient: navigateTo(url),
\* waitFor(condition), typeText(text, field).
NavigateToCommand(url) == <<"navigate", " to ">> \o url
WaitForCommand(condition) == <<"wait", " for ">> \o condition
TypeTextCommand(text, field) == <<"type", " \"">> \o text \o <<"\" into ">> \o field
ClientCommands ==
    {[method |-> "navigateTo", command |-> NavigateToCommand(url)] :
        url \in CommandArgs}
    \cup {[method |-> "waitFor", command |-> WaitForCommand(c)] : c \in CommandArgs}
    \cup {[method |-> "typeText", command |-> TypeTextCommand(t, <<"site">>)] :
             t \in CommandArgs}

\* The handler that the if-else chain of executeNaturalLanguageCommand calls.
Dispatch(command) ==
    IF Includes(command, "click") \/ Includes(command, "press")
    THEN "handleClickCommand"
    ELSE IF \/ Includes(command, "type") \/ Includes(command, "fill")
            \/ Includes(command, "enter")
    THEN "handleTypeCommand"
    ELSE IF Includes(command, "navigate") \/ Includes(command, "go to")
    THEN "handleNavigateCommand"
    ELSE IF Includes(command, "wait") \/ Includes(command, "until")
    THEN "handleWaitCommand"
    ELSE IF Includes(command, "screenshot") \/ Includes(command, "capture")
    THEN "handleScreenshotCommand"
    ELSE IF Includes(command, "scroll")
    THEN "handleScrollCommand"
    ELSE "notRecognized"

\* executeNaturalLanguageCommand up to the call of the handler it chose, or
\* to its throw when pageId has no entry in this.pages.
ExecuteNaturalLanguageCommand ==
    /\ Calling("executeNaturalLanguageCommand", "called")
    /\ act' = IF ~act.arg.page THEN Threw(act)
              ELSE [act EXCEPT !.pc = "done", !.out = Dispatch(act.arg.command)]
    /\ UNCHANGED oldVars

\* --------------------------------------------------------- suggestAlternatives
\* The fields of an element that the page function reads, in the order of
\* its tests: textContent, then the attributes, then the joined class list.
Fields == <<"text", "aria-label", "title", "placeholder", "name", "id", "class">>
NumFields == 7
SuggestionLimit == 5
MaxElements == 6
\* A field's text and the failed selector are sequences of words.
\* String.prototype.toLowerCase, word by word.
LowerWord(w) == IF w \in {"Save", "SAVE"} THEN "save" ELSE w
Lower(str) == [j \in DOMAIN str |-> LowerWord(str[j])]
\* `field.includes(lowerSel)` for a selector of one word.
FieldIncludes(str, lowerSel) == \E j \in 1..Len(str) : Lower(str)[j] = lowerSel[1]
\* An element whose fields f and g read "Save" and whose other fields are
\* empty (f = g = 0: no field does and the text is "Cancel").
Element(f, g) ==
    [k \in 1..NumFields |->
        IF k = f \/ k = g THEN <<"Save">>
        ELSE IF k = 1 /\ f = 0 THEN <<"Cancel">> ELSE <<>>]
NoMatch == Element(0, 0)
\* document.querySelectorAll("body *"): short pages of any elements, and
\* pages of up to MaxElements elements that match by text or not at all.
ShortPages ==
    LET E == {Element(f, g) : f \in 0..NumFields, g \in {0, NumFields}} IN
    UNION {[1..n -> E] : n \in 0..2}
LongPages == UNION {[1..n -> {Element(1, 0), NoMatch}] : n \in 3..MaxElements}
SuggestCalls ==
    {[page |-> p, sel |-> sel] : p \in ShortPages \cup LongPages,
                                 sel \in {<<"save">>, <<"SAVE">>}}

\* The condition of the page function's `if`.
ElementMatches(el, lowerSel) == \E k \in 1..NumFields : FieldIncludes(el[k], lowerSel)
\* Mutant: foundBy that names the last matching field.
FoundByLast(el, lowerSel) ==
    LET K == {k \in 1..NumFields : FieldIncludes(el[k], lowerSel)} IN
    IF K = {} THEN "unknown" ELSE Fields[CHOOSE k \in K : \A j \in K : j <= k]
\* The chain of conditional expressions of `foundBy`.
FoundBy(el, lowerSel) ==
    IF FieldIncludes(el[1], lowerSel) THEN Fields[1]
    ELSE IF FieldIncludes(el[2], lowerSel) THEN Fields[2]
    ELSE IF FieldIncludes(el[3], lowerSel) THEN Fields[3]
    ELSE IF FieldIncludes(el[4], lowerSel) THEN Fields[4]
    ELSE IF FieldIncludes(el[5], lowerSel) THEN Fields[5]
    ELSE IF FieldIncludes(el[6], lowerSel) THEN Fields[6]
    ELSE IF FieldIncludes(el[7], lowerSel) THEN Fields[7]
    ELSE "unknown"
\* The page function: the matches in document order, then `slice(0, 5)`.
PageMatches(page, sel) ==
    LET lowerSel == Lower(sel)
        Test(i) == ElementMatches(page[i], lowerSel)
        idx == SelectSeq([i \in 1..Len(page) |-> i], Test)
        matches == [k \in 1..Len(idx) |->
                      [el |-> idx[k], foundBy |-> FoundBy(page[idx[k]], lowerSel)]]
    IN SubSeq(matches, 1, IF Len(matches) < SuggestionLimit THEN Len(matches)
                          ELSE SuggestionLimit)

\* suggestAlternatives up to `await page.evaluate(...)`.
SuggestAlternatives ==
    /\ Calling("suggestAlternatives", "called")
    /\ act' = [act EXCEPT !.pc = "evaluate",
                          !.ops = Append(@, PageOp("evaluate", 0, 0))]
    /\ UNCHANGED oldVars

\* The page function returned its matches, or page.evaluate rejected.
SuggestEvaluateResume ==
    /\ Calling("suggestAlternatives", "evaluate")
    /\ \/ LET m == PageMatches(act.arg.page, act.arg.sel)
              found == Emit(act, "info", "Found similar elements")
              said == [found EXCEPT !.events = @ \o
                         [k \in 1..Len(m) |->
                            EventAbout("info", "matched by", m[k].foundBy)]] IN
          act' = IF m # <<>> THEN Returned([said EXCEPT !.matches = m])
                 ELSE Returned(Emit(act, "info", "No specific alternatives found"))
       \/ act' = Returned(Emit(act, "error", "Failed to suggest alternatives"))
    /\ UNCHANGED oldVars

\* ------------------------------------------------------------------ ActSpec
ActNext ==
    \/ HandleType
    \/ FillResume
    \/ HandleScroll
    \/ ScrollResume
    \/ HandleScrollCommand
    \/ ScrollCommandResume
    \/ HandleNavigation
    \/ GotoResume
    \/ LoadStateResume
    \/ StructureResume
    \/ HandleNavigateCommand
    \/ NavigateCommandResume
    \/ HandleAnalyze
    \/ PageInfoResume
    \/ AnalysisResume
    \/ HandleUserMessage
    \/ IntentResume
    \/ HandlerResume
    \/ GeneratePlaywrightTest
    \/ ExecuteNaturalLanguageCommand
    \/ SuggestAlternatives
    \/ SuggestEvaluateResume

\* The calls made: any handler, on any argument and page.
ActCalls ==
    {ActCall("handleType", cand) : cand \in Candidates}
    \cup {[ActCall("handleScroll", d) EXCEPT !.height = h] :
             d \in Directions, h \in ScrollHeights}
    \cup {ActCall("handleScrollCommand", c) : c \in ScrollCommands}
    \cup {ActCall("handleNavigation", url) : url \in Urls}
    \cup {ActCall("handleNavigateCommand", c) : c \in NavigateCommands}
    \cup {ActCall("handleAnalyze", reply) : reply \in AnalysisReplies}
    \cup {ActCall("handleUserMessage", reply) : reply \in IntentReplies}
    \cup {ActCall("generatePlaywrightTest", h) : h \in Histories}
    \cup {ActCall("executeNaturalLanguageCommand",
                  [method |-> c.method, command |-> c.command, page |-> p]) :
             c \in ClientCommands, p \in BOOLEAN}
    \cup {ActCall("suggestAlternatives", c) : c \in SuggestCalls}
ActInit ==
    /\ RegistryInit /\ SessionInit /\ serial = FALSE
    /\ wf = NoWorkflow /\ io = NoInput /\ hc = NoClick /\ hw = NoWait
    /\ ui = NoUi /\ cp = NoCop
    /\ act \in ActCalls
ActSpec == ActInit /\ [][ActNext]_vars

\* ============== Part VII: the UI client of one socket and the commands it
\* sends.  The client sets isProcessing when it sends a command and clears it
\* one second after a status_update of type success or error; nothing else
\* writes it.  The server handles each user_message in its own async call.
MaxCommands == 2

\* The status events of one handleUserMessage call, in emission order, by
\* their type; "await" marks a suspension.  The call starts with
\* `await initializeBrowser`, the analyzing event, and the awaits of
\* page.title() and analyzeUserIntent.
Prefix == <<"await", "info", "await">>
UiScripts ==
    [sessionMissing |-> <<"error">>,
     unknownAction  |-> Prefix \o <<"info", "warning">>,
     scrollUnknown  |-> Prefix \o <<"info", "info", "warning">>,
     scrollDown     |-> Prefix \o <<"info", "info", "await", "success">>,
     click          |-> Prefix \o <<"info", "info", "await", "info", "await",
                                    "success", "await">>,
     navigate       |-> Prefix \o <<"info", "info", "await", "success", "info",
                                    "await", "success">>]
UiOutcomes == DOMAIN UiScripts

\* Where a script suspends next: the index of its first "await".
FirstAwait(script) ==
    LET S == {i \in 1..Len(script) : script[i] = "await"} IN
    IF S = {} THEN Len(script) + 1 ELSE CHOOSE i \in S : \A j \in S : i <= j
\* Run a call up to its next suspension: its events go to the socket, and the
\* call stays in `running` unless it has returned.
RunOn(u, script, rest) ==
    LET i == FirstAwait(script) IN
    [u EXCEPT !.toClient = @ \o SubSeq(script, 1, i - 1),
              !.running = IF i > Len(script) THEN rest
                          ELSE rest \o <<SubSeq(script, i, Len(script))>>]
Without(seq, p) == SubSeq(seq, 1, p - 1) \o SubSeq(seq, p + 1, Len(seq))

uiRest == <<regVars, sessVars, wf, io, hc, hw, act, cp>>

\* socket.on("connect") in the client, io.on("connection") in the server.
UiConnect ==
    /\ ~ui.isConnected
    /\ ui' = [ui EXCEPT !.isConnected = TRUE,
                        !.toClient = Append(@, "connection_success")]
    /\ UNCHANGED uiRest

\* sendMessage, for a command the server will handle with the given outcome.
SendMessage(outcome) ==
    /\ ui.isConnected /\ ~ui.isProcessing
    /\ ui.sent < MaxCommands
    /\ ui' = [ui EXCEPT !.isProcessing = TRUE, !.sent = @ + 1,
                        !.toServer = Append(@, outcome)]
    /\ UNCHANGED uiRest

\* socket.on("user_message"): handleUserMessage starts.
OnUserMessage ==
    /\ ui.toServer # <<>>
    /\ ui' = RunOn([ui EXCEPT !.toServer = Tail(@)],
                   UiScripts[Head(ui.toServer)], ui.running)
    /\ UNCHANGED uiRest

\* The awaited promise of call p settles and the call runs on.
UiResume(p) ==
    /\ p \in 1..Len(ui.running)
    /\ ui' = RunOn(ui, Tail(ui.running[p]), Without(ui.running, p))
    /\ UNCHANGED uiRest

\* handleStatusUpdate: setTimeout(..., 1000) for success and error only.
HandleStatusUpdate ==
    /\ ui.toClient # <<>>
    /\ ui' = [ui EXCEPT !.toClient = Tail(@),
                        !.timers = IF Head(ui.toClient) \in {"success", "error"}
                                   THEN @ + 1 ELSE @]
    /\ UNCHANGED uiRest

\* The timer's callback: setIsProcessing(false).
TimerFires ==
    /\ ui.timers > 0
    /\ ui' = [ui EXCEPT !.timers = @ - 1, !.isProcessing = FALSE]
    /\ UNCHANGED uiRest

\* The socket disconnects: the client only clears isConnected; what was in
\* flight is lost, and what the calls of the destroyed session still emit
\* goes to a closed socket.
UiDisconnect ==
    /\ ui.isConnected
    /\ ui' = [ui EXCEPT !.isConnected = FALSE, !.toClient = <<>>,
                        !.toServer = <<>>, !.running = <<>>]
    /\ UNCHANGED uiRest

UiNext ==
    \/ UiConnect
    \/ \E outcome \in UiOutcomes : SendMessage(outcome)
    \/ OnUserMessage
    \/ \E p \in 1..MaxCommands : UiResume(p)
    \/ HandleStatusUpdate
    \/ TimerFires
    \/ UiDisconnect

UiSpec == Init /\ [][UiNext]_vars

\* ===== Part VIII: PlaywrightCopilotClient and the copilot session of
\* CopilotPlaywrightAgent.  The client's calls are made one after the other;
\* its HTTP request is the request of connection 1.  The ids
\* copilot-<sessionId>, copilot-context-<sessionId> and
\* copilot-page-<sessionId> are the key sessionId of the three Maps.
\* closeBrowser of CopilotPlaywrightAgent is, statement by statement, the
\* closeBrowser of Part I.
SessionIds == (BrowserIds \cap ContextIds) \cap PageIds
CopFns == {"navigateTo", "clickElement", "typeText", "takeScreenshot",
           "getPageInfo", "waitFor", "executeCommand", "executeWorkflow"}
copRest == <<serial, pre, sessVars, wf, io, hc, hw, act, ui>>
CopIdle == cp.pc = "idle" /\ req[1].pc = "idle"
\* Room in the object pool for the three objects of a copilot session.
CopRoom == Len(objs) + 3 <= 2 * MaxObjs

\* createPage from its call to `await context.newPage()`.
StartCreatePage(q, pgs) ==
    IF Has(pgs, q.id) THEN Finish(q, "err", "DuplicateId")
    ELSE [q EXCEPT !.pc = "newPage"]
\* createContext from its call to `await browser.newContext(options)`.
StartCreateContext(q, ctxs) ==
    IF Has(ctxs, q.id) THEN Finish(q, "err", "DuplicateId")
    ELSE [q EXCEPT !.pc = "newContext"]
\* launchBrowser from its call to `await chromium.launch(...)`.
StartLaunchBrowser(q, browserType) ==
    IF Has(browsers, q.id) THEN Finish(q, "err", "DuplicateId")
    ELSE IF browserType \notin SupportedBrowserTypes
         THEN Finish(q, "err", "UnsupportedBrowserType")
         ELSE [q EXCEPT !.pc = "launch"]

\* PlaywrightCopilotClient.launchBrowser: sessionId is `session-${Date.now()}`,
\* and the clock never runs backwards.  POST /copilot/session/start runs
\* startCopilotSession to its first await.
CopLaunchBrowser(browserType, sessionId) ==
    /\ CopIdle /\ CopRoom
    /\ sessionId >= cp.now
    /\ cp' = [cp EXCEPT !.fn = "launchBrowser", !.sessionId = sessionId,
                        !.now = sessionId, !.out = "none"]
    /\ req' = [req EXCEPT ![1] =
                 StartLaunchBrowser(Call("start_session", sessionId, 0), browserType)]
    /\ UNCHANGED <<objs, browsers, contexts, pages, copRest>>

\* startCopilotSession: `await this.launchBrowser(...)` settled.
SessionLaunchResume ==
    /\ req[1].op = "start_session" /\ req[1].pc = "launch"
    /\ \/ /\ objs' = Append(objs, NewObj("browser", 0, 1))
          /\ browsers' = MapSet(browsers, req[1].id, Len(objs) + 1)
          /\ req' = [req EXCEPT ![1] =
                       StartCreateContext([@ EXCEPT !.tgt = Len(objs) + 1], contexts)]
       \/ /\ req' = [req EXCEPT ![1] = Finish(@, "err", "Engine")]
          /\ UNCHANGED <<objs, browsers>>
    /\ UNCHANGED <<contexts, pages, cp, copRest>>

\* startCopilotSession: `await this.createContext(...)` settled.
SessionContextResume ==
    /\ req[1].op = "start_session" /\ req[1].pc = "newContext"
    /\ \/ /\ objs' = Append(objs, NewObj("context", req[1].tgt, 1))
          /\ contexts' = MapSet(contexts, req[1].id, Len(objs) + 1)
          /\ req' = [req EXCEPT ![1] = StartCreatePage(@, pages)]
       \/ /\ req' = [req EXCEPT ![1] = Finish(@, "err", "Engine")]
          /\ UNCHANGED <<objs, contexts>>
    /\ UNCHANGED <<browsers, pages, cp, copRest>>

\* startCopilotSession: `await this.createPage(...)` settled; { success: true,
\* ..., pageId } is returned.
SessionPageResume ==
    /\ req[1].op = "start_session" /\ req[1].pc = "newPage"
    /\ \/ /\ objs' = Append(objs, NewObj("page", contexts[req[1].id].obj, 1))
          /\ pages' = MapSet(pages, req[1].id, Len(objs) + 1)
          /\ req' = [req EXCEPT ![1] = Finish(@, "ok", "none")]
       \/ /\ req' = [req EXCEPT ![1] = Finish(@, "err", "Engine")]
          /\ UNCHANGED <<objs, pages>>
    /\ UNCHANGED <<browsers, contexts, cp, copRest>>

\* launchBrowser after `await response.json()`: the route answers a thrown
\* error with { error }, where result.success is undefined.
LaunchBrowserReturn ==
    /\ req[1].op = "start_session" /\ req[1].pc = "done"
    /\ cp' = IF req[1].status = "ok"
             THEN [cp EXCEPT !.currentSession = cp.sessionId,
                             !.currentPageId = req[1].id, !.out = "launched"]
             ELSE [cp EXCEPT !.out = "launchFailed"]
    /\ req' = [req EXCEPT ![1] = Idle]
    /\ UNCHANGED <<objs, browsers, contexts, pages, copRest>>

\* navigateTo, clickElement, ...: the `!this.currentPageId` test, then fetch.
CopCommand(fn) ==
    /\ CopIdle
    /\ cp' = IF cp.currentPageId = 0
             THEN [cp EXCEPT !.fn = fn, !.out = "NoActiveSession"]
             ELSE [cp EXCEPT !.fn = fn, !.out = "none", !.pc = "fetch"]
    /\ UNCHANGED <<regVars, copRest>>

\* The command's response: result.success is true or it is not.
CopCommandReturn(ok) ==
    /\ cp.pc = "fetch"
    /\ cp' = [cp EXCEPT !.pc = "idle", !.out = IF ok THEN "done" ELSE "failed"]
    /\ UNCHANGED <<regVars, copRest>>

\* PlaywrightCopilotClient.closeBrowser: the `!this.currentSession` test, then
\* DELETE /browser/copilot-<currentSession>.
CopCloseBrowser ==
    /\ CopIdle
    /\ \/ /\ cp.currentSession = 0
          /\ cp' = [cp EXCEPT !.fn = "closeBrowser", !.out = "NoActiveSessionToClose"]
          /\ UNCHANGED <<regVars, copRest>>
       \/ /\ cp.currentSession # 0
          /\ CloseBrowser(1, cp.currentSession)

\* Mutant: closeBrowser that resets currentSession only.
CloseBrowserReturnKeepsPage ==
    /\ req[1].op = "close_browser" /\ req[1].pc = "done"
    /\ cp' = IF req[1].status = "ok"
             THEN [cp EXCEPT !.currentSession = 0, !.fn = "closeBrowser",
                             !.out = "closed"]
             ELSE [cp EXCEPT !.fn = "closeBrowser", !.out = "closeFailed"]
    /\ req' = [req EXCEPT ![1] = Idle]
    /\ UNCHANGED <<objs, browsers, contexts, pages, copRest>>

\* closeBrowser after `await response.json()`.
CloseBrowserReturn ==
    /\ req[1].op = "close_browser" /\ req[1].pc = "done"
    /\ cp' = IF req[1].status = "ok"
             THEN [cp EXCEPT !.currentSession = 0, !.currentPageId = 0,
                             !.fn = "closeBrowser", !.out = "closed"]
             ELSE [cp EXCEPT !.fn = "closeBrowser", !.out = "closeFailed"]
    /\ req' = [req EXCEPT ![1] = Idle]
    /\ UNCHANGED <<objs, browsers, contexts, pages, copRest>>

CopNext ==
    \/ \E t \in BrowserTypes, sessionId \in SessionIds : CopLaunchBrowser(t, sessionId)
    \/ SessionLaunchResume
    \/ SessionContextResume
    \/ SessionPageResume
    \/ LaunchBrowserReturn
    \/ \E fn \in CopFns : CopCommand(fn)
    \/ \E ok \in BOOLEAN : CopCommandReturn(ok)
    \/ CopCloseBrowser
    \/ PageCloseResume(1)
    \/ ContextCloseResume(1)
    \/ BrowserCloseResume(1)
    \/ CloseBrowserReturn

CopSpec == Init /\ [][CopNext]_vars

\* =================================================================== claims
Done(r) == req[r].pc = "done"
Ok(r) == Done(r) /\ req[r].status = "ok"
Failed(r) == Done(r) /\ req[r].status = "err"
\* The step in which connection r's request is received (the call up to its
\* first await).
Received(r) == req[r].pc = "idle" /\ req'[r].pc # "idle"
\* The step in which r's request returns or throws.
Returns(r) == req[r].pc # "done" /\ req'[r].pc = "done"
RegistryUnchanged == UNCHANGED <<browsers, contexts, pages>>

IdIn(reg, op, id) ==
    CASE op \in {"launch_browser", "close_browser"} -> Has(reg.browsers, id)
      [] op \in {"create_context", "close_context"} -> Has(reg.contexts, id)
      [] OTHER -> Has(reg.pages, id)
IdPresent(op, id) == IdIn(Registry, op, id)
ParentPresent(op, par) ==
    CASE op = "create_context" -> Has(browsers, par)
      [] op = "create_page" -> Has(contexts, par)
      [] OTHER -> TRUE

ContextsOf(reg, os, b) ==
    {c \in ContextIds : Has(reg.contexts, c) /\ os[reg.contexts[c].obj].parent = b}
PagesOf(reg, os, c) ==
    {p \in PageIds : Has(reg.pages, p) /\ os[reg.pages[p].obj].parent = c}
PagesUnder(reg, os, b) ==
    {p \in PageIds : Has(reg.pages, p) /\ IsUnder(os, reg.pages[p].obj, b)}

\* The registry holds nothing of the subtree of the handle r's close named.
SubtreeRemoved(r) ==
    /\ ~IdPresent(req[r].op, req[r].id)
    /\ req[r].op = "close_browser" =>
          /\ ContextsOf(Registry, objs, req[r].tgt) = {}
          /\ PagesUnder(Registry, objs, req[r].tgt) = {}
    /\ req[r].op = "close_context" => PagesOf(Registry, objs, req[r].tgt) = {}

\* C1: cascade completeness.  When requests are handled one at a time, after
\* close-browser(b) returns success the registry holds no context whose
\* parent is b and no page whose ownership chain leads to b, and after
\* close-context(c) returns success it holds no page owned by c.
CascadeComplete ==
    \A r \in Conns :
        (Ok(r) /\ req[r].op \in {"close_browser", "close_context"})
            => SubtreeRemoved(r)
\* A close-browser that returned success and had a context with a page to
\* cascade over.
CascadeCompleteWitness ==
    \E r \in Conns :
        /\ Ok(r) /\ req[r].op = "close_browser"
        /\ \E c \in ContextsOf(pre, objs, req[r].tgt) :
              PagesOf(pre, objs, pre.contexts[c].obj) # {}

\* C2: no handle outlives its parent, in every reachable registry state of
\* the interleaved system: every registered page's owning context is
\* registered and every registered context's owning browser is registered.
NoHandleOutlivesParent ==
    /\ \A p \in PageIds : Has(pages, p) =>
          \E c \in ContextIds : contexts[c].obj = objs[pages[p].obj].parent
    /\ \A c \in ContextIds : Has(contexts, c) =>
          \E b \in BrowserIds : browsers[b].obj = objs[contexts[c].obj].parent

\* C3 as stated: a create whose id is already present in its kind's Map
\* always fails with DuplicateId and leaves the registry unchanged.
DuplicateAlwaysDuplicateId ==
    [][\A r \in Conns :
          (Received(r) /\ req'[r].op \in CreateOps
                       /\ IdPresent(req'[r].op, req'[r].id))
          => /\ req'[r].pc = "done" /\ req'[r].status = "err"
             /\ req'[r].err = "DuplicateId"
             /\ RegistryUnchanged]_vars
\* C3 amended: a create whose id is already present always fails and leaves
\* the registry unchanged; the error is DuplicateId when the named parent is
\* registered (always, for a browser) and ParentNotFound when it is not.
DuplicateAlwaysFails ==
    [][\A r \in Conns :
          (Received(r) /\ req'[r].op \in CreateOps
                       /\ IdPresent(req'[r].op, req'[r].id))
          => /\ req'[r].pc = "done" /\ req'[r].status = "err"
             /\ req'[r].err = IF ParentPresent(req'[r].op, req'[r].par)
                              THEN "DuplicateId" ELSE "ParentNotFound"
             /\ RegistryUnchanged]_vars
\* A duplicate context id refused with DuplicateId while the id is registered.
DuplicateWitness ==
    \E r \in Conns :
        /\ Failed(r) /\ req[r].op = "create_context"
        /\ req[r].err = "DuplicateId" /\ Has(contexts, req[r].id)

\* C4: create-context with a browserId absent from the registry and
\* create-page with a contextId absent from the registry fail with
\* ParentNotFound, and nothing is stored.
ParentNotFoundOnAbsentParent ==
    [][\A r \in Conns :
          (Received(r) /\ req'[r].op \in {"create_context", "create_page"}
                       /\ ~ParentPresent(req'[r].op, req'[r].par))
          => /\ req'[r].pc = "done" /\ req'[r].status = "err"
             /\ req'[r].err = "ParentNotFound"
             /\ RegistryUnchanged]_vars
\* A create-context and a create-page both refused for a missing parent.
ParentNotFoundWitness ==
    \E r, t \in Conns :
        /\ Failed(r) /\ req[r].op = "create_context"
        /\ req[r].err = "ParentNotFound" /\ ~Has(contexts, req[r].id)
        /\ Failed(t) /\ req[t].op = "create_page"
        /\ req[t].err = "ParentNotFound" /\ ~Has(pages, req[t].id)

\* C5: every page operation and every close operation on an id that is not
\* registered fails with NotFound and changes nothing, and an id that a
\* close request has just closed successfully is not registered.
NotFoundOnUnregistered ==
    [][\A r \in Conns :
          /\ (Received(r) /\ req'[r].op \in PageOps \cup CloseOps
                          /\ ~IdPresent(req'[r].op, req'[r].id))
             => /\ req'[r].pc = "done" /\ req'[r].status = "err"
                /\ req'[r].err = "NotFound"
                /\ RegistryUnchanged
          /\ (Returns(r) /\ req'[r].op \in CloseOps /\ req'[r].status = "ok")
             => ~IdIn(Registry', req'[r].op, req'[r].id)]_vars
\* One connection has closed page p successfully, the other then operated on
\* p and got NotFound.
NotFoundWitness ==
    \E r, t \in Conns :
        /\ Ok(r) /\ req[r].op = "close_page"
        /\ Failed(t) /\ req[t].op \in PageOps /\ req[t].id = req[r].id
        /\ req[t].err = "NotFound"

\* C6: close is atomic on the registry.  With requests handled one at a
\* time, a close either succeeds with the handle and its whole subtree
\* removed, or fails and leaves the registry as it was.
CloseAtomic ==
    \A r \in Conns :
        (Done(r) /\ req[r].op \in CloseOps)
            => \/ Ok(r) /\ SubtreeRemoved(r)
               \/ Failed(r) /\ Registry = pre

\* C7: a failing engine close does not block registry cleanup.  When the
\* native close of a page, context or browser fails during close-context or
\* close-browser, the entries of the handle and of its subtree are removed
\* all the same.
EngineFailureStillCleansUp ==
    \A r \in Conns :
        (Failed(r) /\ req[r].err = "Engine"
                   /\ req[r].op \in {"close_context", "close_browser"})
            => SubtreeRemoved(r)

\* C9: resources are private to the connection (session) that created them:
\* no request of one connection succeeds on a browser, context or page that
\* another connection created.
NoCrossSessionAccess ==
    \A r \in Conns :
        (Ok(r) /\ req[r].op # "launch_browser") => objs[req[r].tgt].owner = r

\* No call of socket s is suspended at an await.
Settled(s) ==
    /\ disc[s].pc \in {"idle", "done"}
    /\ \A i \in 1..Len(msg[s]) : msg[s][i].pc \in {"done", "initFailed"}
BrowsersOf(s) ==
    {i \in DOMAIN launched : launched[i].kind = "browser" /\ launched[i].sock = s}

\* C8: termination of a connection destroys its session.  Once the socket has
\* disconnected and every call made for it has run to its end, the session is
\* absent from activeSessions and no browser launched for it was left
\* without a close.
DisconnectDestroysSession ==
    \A s \in Sockets :
        (sock[s] = "disconnected" /\ Settled(s))
            => /\ s \notin activeSessions
               /\ \A b \in BrowsersOf(s) : launched[b].st # "open"

\* C10: the action-history log of a session holds its entries in the order
\* in which the commands were received.
HistoryInReceiveOrder ==
    \A s \in Sockets :
        \A j, k \in 1..Len(session[s].actionHistory) :
            j < k => session[s].actionHistory[j] < session[s].actionHistory[k]

\* ---------------------------------------------------------------- C11
InCleanup(c) == c.pc \in {"cleanupPage", "cleanupBrowser"}
\* A step of a cleanupSession call for socket s: its entry (from the
\* disconnect handler, the signal handler or the catch block of
\* initializeBrowser) or its resumption after an await.
CleanupStep(s) ==
    \/ disc[s].pc = "idle" /\ disc'[s].pc # "idle"
    \/ sig'.pc = "cleanup" /\ sig'.sock = s /\ (sig.pc # "cleanup" \/ sig.sock # s)
    \/ \E i \in 1..Len(msg[s]) :
          /\ msg[s][i].pc \in {"launch", "newPage"}
          /\ InCleanup(msg'[s][i]) \/ msg'[s][i].pc = "initFailed"
    \/ \E i \in Procs(s) : InCleanup(CallOf(s, i)) /\ CallOf(s, i)' # CallOf(s, i)
Raised(s) ==
    \/ disc[s].pc = "threw"
    \/ sig.call.pc = "threw"
    \/ \E i \in 1..Len(msg[s]) : msg[s][i].pc = "threw"

\* C11: session destruction is idempotent.  No cleanupSession call raises; a
\* call that returns leaves the session absent from activeSessions; and a
\* call that runs, from its start or from an await, when the session is
\* already destroyed leaves activeSessions and the session object as they
\* are and reopens nothing that was closed.
CleanupIdempotent ==
    [][\A s \in Sockets :
          CleanupStep(s) =>
             /\ ~Raised(s)'
             /\ \A i \in Procs(s) :
                   (InCleanup(CallOf(s, i)) /\ ~InCleanup(CallOf(s, i)'))
                      => s \notin activeSessions'
             /\ s \notin activeSessions =>
                   /\ activeSessions' = activeSessions
                   /\ session' = session
                   /\ \A o \in DOMAIN launched :
                         launched[o].st = "closed" => launched'[o].st = "closed"]_vars
\* The disconnect handler and the signal handler both ran cleanupSession to
\* its end for the same socket, whose session had a browser.
CleanupIdempotentWitness ==
    \E s \in Sockets :
        /\ disc[s].pc = "done"
        /\ sig.pc = "cleanup" /\ sig.sock = s /\ sig.call.pc = "done"
        /\ s \notin activeSessions
        /\ \E b \in BrowsersOf(s) : launched[b].st = "closed"

\* ---------------------------------------------------------------- C14
\* C14: on an interrupt or terminate signal every live session is destroyed
\* and its browsers are closed before the process exits: at the exit no
\* session is left in activeSessions and no launched browser is left without
\* a close.
ShutdownClosesEverything ==
    Exited => /\ activeSessions = {}
              /\ \A b \in DOMAIN launched :
                    launched[b].kind = "browser" => launched[b].st # "open"

\* ---------------------------------------------------------------- C19
\* C19: a failure to launch the browser or to open its first page aborts the
\* initialization and cleans up the partial state of that attempt: when the
\* failed call has returned, the session is gone from activeSessions and no
\* browser launched by that call is left without a close.
InitFailureCleansUp ==
    \A s \in Sockets : \A i \in 1..Len(msg[s]) :
        msg[s][i].pc = "initFailed"
            => /\ s \notin activeSessions
               /\ \A b \in BrowsersOf(s) :
                     launched[b].by = i => launched[b].st # "open"

\* ---------------------------------------------------------------- C12
\* C12: workflow steps are isolated.  The results hold one entry per step
\* attempted so far, in the order of the input list, each a result or an
\* error; and the workflow returns only when every step has its entry.
WorkflowStepsIsolated ==
    /\ \A k \in 1..Len(wf.results) :
          wf.results[k].step = k /\ wf.results[k].kind \in {"result", "error"}
    /\ wf.pc = "step" => Len(wf.results) = wf.i - 1
    /\ wf.pc = "done" => Len(wf.results) = Len(wf.steps)
\* A workflow whose first step failed with an error and whose second step
\* was attempted all the same and succeeded.
WorkflowStepsIsolatedWitness ==
    /\ wf.pc = "done" /\ Len(wf.steps) = 2
    /\ wf.results[1].kind = "error"
    /\ wf.results[2].kind = "result" /\ wf.results[2].val = "success"

\* ---------------------------------------------------------------- C13
\* C13: partial failure.  A step that starts when the workflow's page id is
\* not registered gets a NotFound error as its entry, the entries recorded
\* before stay as they are, and the workflow call reports success.
PartialFailure ==
    [][/\ \A k \in 1..Len(wf.results) :
             k <= Len(wf'.results) /\ wf'.results[k] = wf.results[k]
       /\ \A k \in (Len(wf.results) + 1)..Len(wf'.results) :
             (~(wf.pc = "step" /\ k = wf.i) /\ ~Has(pages, wf'.page))
                => wf'.results[k].kind = "error" /\ wf'.results[k].val = "NotFound"
       /\ wf'.pc = "done" => wf'.status = "ok"]_vars
\* A workflow that reported success although its page was closed while its
\* first step was running: that step has its own entry (it started on a
\* registered page), the second step a NotFound entry.
PartialFailureWitness ==
    /\ wf.pc = "done" /\ wf.status = "ok" /\ Len(wf.results) = 2
    /\ wf.results[1].val # "NotFound"
    /\ wf.results[2].kind = "error" /\ wf.results[2].val = "NotFound"
    /\ ~Has(pages, wf.page)

\* ---------------------------------------------------------------- C15
Responses(k) == {r \in 1..Len(io.out) : io.out[r].line = k}
\* C15: malformed frames never crash the process.  The process is running,
\* every line read that is not a well-formed JSON-RPC request has a
\* parse-error response (-32700), and every request read has been processed:
\* it is answered or its tool call is in flight.
MalformedFramesAnswered ==
    /\ ~io.crashed
    /\ \A k \in 1..Len(io.lines) :
          /\ io.lines[k] \in MalformedKinds =>
                \E r \in Responses(k) : io.out[r].code = ParseErrorCode
          /\ io.lines[k] \in RequestKinds \ {"notification"} =>
                k \in io.pending \/ Responses(k) # {}

\* ---------------------------------------------------------------- C16
\* C16: JSON-RPC error codes.  A request whose method is not supported is
\* answered with -32601 and its id; a tools/call that fails is answered with
\* -32603 and its id; every tools/call is answered once or still running;
\* and no response has both a result and an error.
ErrorCodes ==
    /\ \A k \in 1..Len(io.lines) :
          /\ io.lines[k] = "unknownMethod" =>
                \E r \in Responses(k) :
                    Responses(k) = {r} /\ io.out[r].code = MethodNotFoundCode
                    /\ io.out[r].error /\ io.out[r].id = [tag |-> "id", val |-> k]
          /\ io.lines[k] = "callThrows" =>
                \E r \in Responses(k) :
                    Responses(k) = {r} /\ io.out[r].code = InternalErrorCode
                    /\ io.out[r].error /\ io.out[r].id = [tag |-> "id", val |-> k]
          /\ io.lines[k] = "callTool" =>
                \/ k \in io.pending /\ Responses(k) = {}
                \/ \E r \in Responses(k) :
                     /\ k \notin io.pending /\ Responses(k) = {r}
                     /\ io.out[r].id = [tag |-> "id", val |-> k]
                     /\ io.out[r].error => io.out[r].code = InternalErrorCode
    /\ \A r \in 1..Len(io.out) : io.out[r].result # io.out[r].error
\* An unknown method, a tool call that failed in the engine and a tool call
\* that succeeded have all been answered.
ErrorCodesWitness ==
    \E a, b, c \in 1..Len(io.out) :
        /\ io.lines[io.out[a].line] = "unknownMethod"
        /\ io.lines[io.out[b].line] = "callTool" /\ io.out[b].error
        /\ io.lines[io.out[c].line] = "callTool" /\ io.out[c].result

\* ---------------------------------------------------------------- C17
Winners(cand) == {j \in 1..NumStrategies : cand[j] = "visible"}
\* C17: strict precedence of element resolution.  findElement returns the
\* locator of the lowest-index strategy that has a visible first match, and
\* null exactly when no strategy has one; the order of the strategies is
\* selector, text, aria-label, title, placeholder, button, link, any element.
StrictPrecedence ==
    /\ Len(Strategies) = NumStrategies
    /\ Strategies = <<"selector", "text", "aria-label", "title", "placeholder",
                      "button:has-text", "a:has-text", "*:has-text">>
    /\ hc.pc # "called" =>
          /\ hc.found = 0 <=> Winners(hc.cand) = {}
          /\ hc.found # 0 =>
                /\ hc.found \in Winners(hc.cand)
                /\ \A j \in Winners(hc.cand) : hc.found <= j
\* The third strategy won: the first has a hidden match, the second throws,
\* and a later strategy has a visible match too.
StrictPrecedenceWitness ==
    /\ hc.pc # "called" /\ hc.found = 3
    /\ hc.cand[1] = "hidden" /\ hc.cand[2] = "throws" /\ hc.cand[5] = "visible"

\* ---------------------------------------------------------------- C18
InTrace(e) == \E k \in 1..Len(hc.trace) : hc.trace[k] = e
\* C18: a click whose target resolves to no element calls suggestAlternatives
\* and then fails with ElementNotFound, without clicking; suggestAlternatives
\* is never called when the target was resolved.
SuggestOnlyOnNotFound ==
    hc.pc # "called" =>
        /\ hc.found = 0 =>
              /\ hc.trace = <<"suggestAlternatives">>
              /\ hc.pc = "done" => hc.status = "ElementNotFound"
        /\ hc.found # 0 => ~InTrace("suggestAlternatives")
        /\ hc.status = "ElementNotFound" => hc.found = 0 /\ hc.pc = "done"
\* A click that failed with ElementNotFound after suggestAlternatives, on a
\* page where some strategy had a hidden match.
SuggestOnlyOnNotFoundWitness ==
    /\ hc.pc = "done" /\ hc.status = "ElementNotFound"
    /\ InTrace("suggestAlternatives") /\ ~InTrace("click")
    /\ \E j \in 1..NumStrategies : hc.cand[j] = "hidden"

\* ---------------------------------------------------------------- C20
\* The duration is not a number or is not positive.
InvalidDuration(d) == ParseInt(d).nan \/ ParseInt(d).val <= 0
HasWarning == \E k \in 1..Len(hw.trace) : hw.trace[k] = "warning"
\* C20: a wait whose duration is not numeric or not positive waits exactly
\* 2000 ms, emits a warning status, and does not fail for that reason.
WaitFallbackWarns ==
    (hw.pc # "called" /\ InvalidDuration(hw.duration))
        => hw.waitTime = DefaultWaitMs /\ HasWarning


\* The step removes context c / browser b from its Map.
RemovesContext(c) == Has(contexts, c) /\ ~Has(contexts', c)
RemovesBrowser(b) == Has(browsers, b) /\ ~Has(browsers', b)
\* C27: cascade order of close-browser.  When requests are handled one at a
\* time, every step of a close-browser cascade that removes a context from the
\* registry finds no page of that context registered, and the step that
\* removes the browser finds no context of that browser registered: pages go
\* first, then their context, the browser last.
CascadeOrder ==
    [][\A r \in Conns : req[r].op = "close_browser" =>
          /\ \A c \in ContextIds :
                RemovesContext(c) => PagesOf(Registry, objs, contexts[c].obj) = {}
          /\ \A b \in BrowserIds :
                RemovesBrowser(b) =>
                    /\ ContextsOf(Registry, objs, browsers[b].obj) = {}
                    /\ PagesUnder(Registry, objs, browsers[b].obj) = {}]_vars
\* A close-browser cascade that has removed a page and then its context and
\* waits for `browser.close()`.
CascadeOrderWitness ==
    \E r \in Conns :
        /\ req[r].op = "close_browser" /\ req[r].pc = "browserClose"
        /\ \E c \in ContextsOf(pre, objs, req[r].tgt) :
              /\ PagesOf(pre, objs, pre.contexts[c].obj) # {}
              /\ ~Has(contexts, c)
              /\ PagesOf(Registry, objs, pre.contexts[c].obj) = {}


\* C28: same-id creates that interleave at the engine call.  A launch-browser,
\* create-context or create-page request returns success only when its id has
\* no entry in the Map at that moment, so that of two interleaved requests
\* with the same id at most one succeeds and no registered engine object is
\* overwritten and left untracked.
SameIdCreateNeverOverwrites ==
    [][\A r \in Conns :
          (Returns(r) /\ req[r].op \in CreateOps /\ req'[r].status = "ok")
              => ~IdPresent(req[r].op, req[r].id)]_vars


\* C29: one browser per session.  While a socket's session is in
\* activeSessions, whatever the interleaving of its user messages, at most one
\* browser has been launched for it and every browser launched for it is the
\* one session.browser refers to (the one cleanupSession closes).
OneBrowserPerSession ==
    \A s \in Sockets :
        s \in activeSessions =>
            /\ Cardinality(BrowsersOf(s)) <= 1
            /\ \A b \in BrowsersOf(s) : session[s].browser = b


\* A non-empty string of digits, and the positive number it writes.
IsNumber(str) == Len(str) >= 1 /\ \A j \in 1..Len(str) : str[j] \in Digits
WaitStarted == hw.pc \in {"waiting", "done"}
\* C21: duration parsing.  A wait whose target is a bare positive integer n
\* waits n milliseconds, and a wait whose target is n followed by " seconds"
\* waits n * 1000 milliseconds.
DurationParsing ==
    WaitStarted =>
        \A n \in Durations :
            (IsNumber(n) /\ DigitsFrom(n, 1, 0) > 0) =>
                /\ hw.duration = n => hw.waitTime = DigitsFrom(n, 1, 0)
                /\ hw.duration = Append(n, " seconds")
                      => hw.waitTime = DigitsFrom(n, 1, 0) * 1000


\* The six direction tokens and the page operation each stands for.
DirectionTokens == {"down", "up", "left", "right", "top", "bottom"}
ScrollOf(d, height) ==
    CASE d = "down" -> PageOp("scrollBy", 0, 500)
      [] d = "up" -> PageOp("scrollBy", 0, -500)
      [] d = "left" -> PageOp("scrollBy", -500, 0)
      [] d = "right" -> PageOp("scrollBy", 500, 0)
      [] d = "top" -> PageOp("scrollTo", 0, 0)
      [] d = "bottom" -> PageOp("scrollTo", 0, height)
LastEvent(type) ==
    Len(act.events) >= 1 /\ act.events[Len(act.events)].type = type
\* The direction of a scroll call of either handler.
ScrollDirection ==
    IF act.fn = "handleScrollCommand" THEN act.arg[2] ELSE act.arg
ScrollCalled == act.fn \in {"handleScroll", "handleScrollCommand"}
\* C22: scroll direction mapping.  Each of the tokens down, up, left, right,
\* top and bottom makes the scroll handler perform exactly its scroll
\* (+500 / -500 vertical, -500 / +500 horizontal, scroll to the top or
\* bottom edge), and when the page call succeeds the handler reports success.
ScrollMapping ==
    (ScrollCalled /\ act.pc # "called" /\ ScrollDirection \in DirectionTokens) =>
        /\ act.ops = <<ScrollOf(ScrollDirection, act.height)>>
        /\ (act.fn = "handleScroll" /\ act.out = "returned") => LastEvent("success")
        /\ (act.fn = "handleScrollCommand" /\ act.pc = "done" /\ act.out # "threw")
              => act.out = "success"

HasEvent(type) == \E k \in 1..Len(act.events) : act.events[k].type = type
\* C23: an unrecognized scroll direction.  A scroll whose direction is none
\* of the tokens the handlers know reports a warning, performs no scroll and
\* does not fail.
UnknownDirectionIsNoOp ==
    (ScrollCalled /\ act.pc # "called"
       /\ ToLowerCase(ScrollDirection) \notin DirectionTokens \cup {"home"}) =>
        /\ act.pc = "done" /\ act.out # "threw"
        /\ act.ops = <<>>
        /\ HasEvent("warning")

\* C30: every element-resolution failure triggers a suggestion pass.  When
\* handleClick or handleType ends because findElement found no visible
\* element, suggestAlternatives has been called on the page.
SuggestOnEveryResolutionFailure ==
    /\ (hc.pc = "done" /\ hc.status = "ElementNotFound")
          => InTrace("suggestAlternatives")
    /\ (Calling("handleType", "done") /\ Winners(act.arg) = {})
          => \E k \in 1..Len(act.ops) : act.ops[k].op = "suggestAlternatives"


HasScheme(url) == StartsWith(url, Http) \/ StartsWith(url, Https)
NavigateCalled == act.fn \in {"handleNavigation", "handleNavigateCommand"}
NavigateTarget ==
    IF act.fn = "handleNavigateCommand" THEN Tail(act.arg) ELSE act.arg
\* C24: navigate normalizes its target.  The URL handed to page.goto is the
\* target with https:// prepended when the target does not begin with
\* http:// or https://, and the target unchanged when it does.
NavigateNormalizes ==
    (NavigateCalled /\ act.ops # <<>>) =>
        act.url = IF HasScheme(NavigateTarget) THEN NavigateTarget
                  ELSE Https \o NavigateTarget


TranslatorCalled ==
    \E k \in 1..Len(act.ops) : act.ops[k].op = "chat.completions.create"
SuggestionEvents == {k \in 1..Len(act.events) : act.events[k].text = "Suggestion"}
\* C26: analyze reports a summary and at most 3 suggestions, and a failed
\* translator call (an upstream error or an unparseable reply) ends in a
\* normal return with the explanatory summary and no suggestion.
AnalyzeDegrades ==
    Calling("handleAnalyze", "done") =>
        /\ Cardinality(SuggestionEvents) <= 3
        /\ (TranslatorCalled /\ act.arg.kind \in {"apiError", "unparseable"}) =>
              /\ act.out = "returned"
              /\ SuggestionEvents = {}
              /\ \E k \in 1..Len(act.events) : act.events[k].text = FallbackSummary


\* A translator outcome that is no ActionPlan: a failed call, unparseable
\* text, a JSON value that is not an object, a missing or unlisted action.
NonConforming(reply) ==
    \/ reply.kind \in {"apiError", "text", "braces"}
    \/ reply.type # "object"
    \/ reply.action \notin PlanActions \cup {"error"}
\* C25: a non-conforming translator output is the error sentinel.  When the
\* translator call fails or its output is no ActionPlan, the message is
\* processed to its end without a throw, no handler is called on the page,
\* and a failure (an event of type error) is reported.
NonConformingIsSentinel ==
    (Calling("handleUserMessage", "done") /\ NonConforming(act.arg)) =>
        /\ act.out = "returned"
        /\ act.ops = <<>>
        /\ HasEvent("error")


\* C31: the action history and the script made from it.  generate_test on a
\* session with an empty history emits no script, and on any other history
\* emits one script that has one block per history entry, in log order.
ScriptFollowsHistory ==
    Calling("generatePlaywrightTest", "done") =>
        IF act.arg = <<>> THEN act.testCode = <<>>
        ELSE /\ Len(act.testCode) = 1
             /\ Len(act.testCode[1]) = Len(act.arg)
             /\ \A k \in 1..Len(act.arg) :
                   act.testCode[1][k].message = act.arg[k].message


\* ---------------------------------------------------------------- C32
\* C32: every request of stdin is answered once.  Every line with method
\* initialize, tools/list or tools/call that stdin has delivered, in one
\* chunk or cut by a chunk boundary, has exactly one response with its id,
\* or is a tools/call still running in a process that is alive.
EveryRequestAnswered ==
    \A k \in 1..Len(io.lines) :
       /\ io.lines[k] \in {"initialize", "toolsList", "callThrows", "callTool"} =>
             \/ k \in io.pending /\ ~io.crashed /\ Responses(k) = {}
             \/ \E r \in Responses(k) :
                  /\ k \notin io.pending /\ Responses(k) = {r}
                  /\ io.out[r].id = [tag |-> "id", val |-> k]
       /\ io.lines[k] = "cutTail" =>
             \E r \in Responses(k - 1) \cup Responses(k) : io.out[r].id.tag = "id"


\* ---------------------------------------------------------------- C33
\* C33: the client is never left unable to send.  When every command sent
\* has been handled to its end, every status event has been delivered and
\* every reset timer has fired, isProcessing is false.
ClientNeverStuck ==
    (/\ ui.toServer = <<>> /\ ui.running = <<>>
     /\ ui.toClient = <<>> /\ ui.timers = 0) => ~ui.isProcessing

\* ---------------------------------------------------------------- C34
\* C34: at most one command of the session is being executed by the server
\* at any time.
OneCommandAtATime == Len(ui.running) <= 1


\* ---------------------------------------------------------------- C35
InitInFlight(s) ==
    \E i \in 1..Len(msg[s]) : msg[s][i].pc \in {"launch", "newPage"}
CleanupInFlight(s) ==
    \E i \in Procs(s) : CallOf(s, i).pc \in {"cleanupPage", "cleanupBrowser"}
\* C35: a session that holds a browser holds a page.  In every session with
\* no initializeBrowser call and no cleanupSession call in flight,
\* session.page is set whenever session.browser is set.
BrowserImpliesPage ==
    \A s \in activeSessions :
        ~InitInFlight(s) /\ ~CleanupInFlight(s) =>
            (session[s].browser # 0 => session[s].page # 0)


\* ---------------------------------------------------------------- C36
\* C36: startCopilotSession is all-or-nothing.  When it has returned, the
\* registry has the session's browser, context and page, chained page ->
\* context -> browser; when it has thrown, the registry has no entry for an
\* object that this attempt created.
StartAllOrNothing ==
    LET q == req[1] IN
    (q.op = "start_session" /\ q.pc = "done") =>
        IF q.status = "ok"
        THEN /\ Has(browsers, q.id) /\ Has(contexts, q.id) /\ Has(pages, q.id)
             /\ objs[pages[q.id].obj].parent = contexts[q.id].obj
             /\ objs[contexts[q.id].obj].parent = browsers[q.id].obj
        ELSE q.tgt = 0 \/ \A b \in BrowserIds : browsers[b].obj # q.tgt

\* ---------------------------------------------------------------- C39
BothOrNeither == (cp.currentSession = 0) <=> (cp.currentPageId = 0)
\* C39: the client's two fields.  currentSession is null exactly when
\* currentPageId is; a call other than launchBrowser made while they are null
\* returns the no-active-session message and sends no request; and when
\* closeBrowser succeeds, the browser copilot-<currentSession> is closed and
\* out of the registry and both fields are reset.
CopilotClientState ==
    [][/\ BothOrNeither /\ BothOrNeither'
       /\ (CopIdle /\ cp.currentPageId = 0 /\ cp'.fn # "launchBrowser") =>
             /\ cp'.out \in {"NoActiveSession", "NoActiveSessionToClose"}
             /\ cp'.pc = "idle" /\ req' = req
       /\ (req[1].op = "close_browser" /\ req[1].status = "ok" /\ req'[1] = Idle) =>
             /\ req[1].id = cp.currentSession
             /\ ~Has(browsers, cp.currentSession)
             /\ ~objs[req[1].tgt].open
             /\ cp'.currentSession = 0 /\ cp'.currentPageId = 0]_vars
\* A session was launched, a command was refused before or after it, and
\* the session's browser was closed.
CopilotClientStateWitness ==
    /\ cp.out = "closed" /\ cp.currentSession = 0 /\ cp.sessionId # 0
    /\ ~Has(browsers, cp.sessionId)


\* ---------------------------------------------------------------- C37
\* C37: dispatch by the leading verb.  The command that navigateTo sends is
\* dispatched to the navigation handler, the command of waitFor to the wait
\* handler and the command of typeText to the type handler, whatever the
\* url, the condition or the text is.
DispatchByLeadingVerb ==
    (Calling("executeNaturalLanguageCommand", "done") /\ act.arg.page) =>
        act.out = CASE act.arg.method = "navigateTo" -> "handleNavigateCommand"
                    [] act.arg.method = "waitFor" -> "handleWaitCommand"
                    [] act.arg.method = "typeText" -> "handleTypeCommand"

\* ---------------------------------------------------------------- C38
FirstField(el, lowerSel) ==
    CHOOSE k \in 1..NumFields :
        /\ FieldIncludes(el[k], lowerSel)
        /\ \A j \in 1..(k - 1) : ~FieldIncludes(el[j], lowerSel)
\* C38: the candidates of suggestAlternatives.  The candidates are the first
\* five elements, in document order, that contain the failed description in
\* one of the seven fields, compared without regard to case (all of them when
\* there are fewer than five), and each names the first field that matches,
\* in the order text, aria-label, title, placeholder, name, id, class.
SuggestionsByFirstField ==
    (Calling("suggestAlternatives", "done") /\ ~HasEvent("error")) =>
        LET page == act.arg.page
            lowerSel == Lower(act.arg.sel)
            M == {i \in 1..Len(page) :
                    \E k \in 1..NumFields : FieldIncludes(page[i][k], lowerSel)}
            m == act.matches IN
        /\ Fields = <<"text", "aria-label", "title", "placeholder", "name", "id",
                      "class">>
        /\ Len(m) <= 5
        /\ Len(m) = IF Cardinality(M) < 5 THEN Cardinality(M) ELSE 5
        /\ \A k \in 1..Len(m) :
              /\ m[k].el \in M
              /\ Cardinality({i \in M : i < m[k].el}) = k - 1
              /\ m[k].foundBy = Fields[FirstField(page[m[k].el], lowerSel)]
\* Six elements match and five are returned; or a candidate whose text does
\* not match is attributed to a later field, for a selector in capitals.
SuggestionsByFirstFieldWitness ==
    /\ Calling("suggestAlternatives", "done") /\ ~HasEvent("error")
    /\ \/ Len(act.matches) = 5 /\ Len(act.arg.page) = 6
          /\ \A i \in 1..6 : ElementMatches(act.arg.page[i], Lower(act.arg.sel))
       \/ /\ act.arg.sel = <<"SAVE">> /\ Len(act.matches) = 2
          /\ act.matches[1].foundBy = "title" /\ act.matches[2].foundBy = "id"

====
